---- MODULE Spec2Model ----
(***************************************************************************)
(* A model of the 39b Web3 project generator:                              *)
(*   - the retry loops of ClaudeService.sendPrompt, callClaudeAPI and      *)
(*     enhancedCallClaudeAPI (streaming and non-streaming), with the       *)
(*     response post-processing and the rolling context window;            *)
(*   - ProjectGenerator.processStructure, which materializes a template    *)
(*     tree on disk with variable substitution and template references.    *)
(*                                                                         *)
(* Text is a sequence of atoms.  An atom is one character ("{", "}", ".",  *)
(* "$", "&", a newline) or an opaque run of ordinary characters ("Hello ", *)
(* "Name", "contracts"); FENCE is the code fence (three backquotes).      *)
(***************************************************************************)
EXTENDS Integers, Sequences, FiniteSets, TLC

VARIABLES
    \* ---- ClaudeService: one dispatch (sendPrompt / callClaudeAPI / enhancedCallClaudeAPI)
    pc,             \* "idle" | "loop" | "stream" | "returned" | "threw"
    method,         \* which method the caller invoked
    options,        \* the options bag the caller passed
    config,         \* this.config of the ClaudeService
    maxRetries,     \* the retry budget the loop uses (local maxRetries / callOptions.maxRetries)
    retryDelay,     \* the backoff base the loop uses
    attempt,        \* the loop counter
    lastError,      \* message of the error caught last, NoError when none
    waits,          \* the waitTime of every setTimeout, in order
    attemptLog,     \* history: what the remote did on each attempt
    result,         \* the text returned to the caller
    thrown,         \* the error thrown to the caller
    messageContent, \* createStreamHandler's accumulated content
    responseText,   \* enhancedCallClaudeAPI's responseText
    delivered,      \* what the current stream has delivered so far
    chunks,         \* chunks the current stream has yielded
    \* ---- the conversation window shared across dispatches
    callerWindow,   \* the array the caller passes as options.contextWindow
    contextWindow,  \* callOptions.contextWindow of the current dispatch
    windowHistory,  \* history: every entry ever pushed, in order
    dispatches,     \* dispatches started so far
    \* ---- ProjectGenerator.processStructure
    mpc,            \* "idle" | "running" | "done" | "failed"
    structure,      \* the template tree handed to processStructure
    variables,      \* the variable bindings, in their iteration order
    templates,      \* the template store: <<category, name>> -> content
    files,          \* the destination's files: path -> content
    dirs,           \* the destination's directories
    stack,          \* the pending processStructure calls, innermost first
    written,        \* history: every file written, in order
    failure,        \* what made processStructure throw
    runs,           \* calls of processStructure on this destination so far
    atEntry,        \* history: the destination when the current call began
    \* ---- ClaudeService.determineBridgeTypes
    bpc,            \* "idle" | "returned"
    blockchains,    \* the list of chains handed to determineBridgeTypes
    bridgeInfo,     \* what determineBridgeTypes returned
    regen,          \* enhancedCallClaudeAPI with response validation: one top-level call
    api,            \* the project-generation API route: its initialized flag and its requests
    templateDir,    \* TemplateManager.addTemplate: the files of one template name and the calls adding it
    manager,        \* Web3ProjectManager.initialize: the directories on disk and the results of the nested initializations
    frameworks,     \* ClaudeService.frameworks: the detection started by the constructor and the prompts built meanwhile
    enhancer,       \* ClaudeEnhancer: the wrappers put around one service's generateContract and the calls made
    project         \* ProjectGenerator.generateProject: one call, its structure and the project directory

dispatchVars == <<pc, method, options, config, maxRetries, retryDelay, attempt,
                  lastError, waits, attemptLog, result, thrown, messageContent,
                  responseText, delivered, chunks, callerWindow, contextWindow,
                  windowHistory, dispatches>>

materializeVars == <<mpc, structure, variables, templates, files, dirs, stack,
                     written, failure, runs, atEntry>>

bridgeVars == <<bpc, blockchains, bridgeInfo>>

\* The variables of the components that follow
laterVars == <<regen, api, templateDir, manager, frameworks, enhancer, project>>

vars == <<dispatchVars, materializeVars, bridgeVars, laterVars>>

besidesRegeneration == <<dispatchVars, materializeVars, bridgeVars, api, templateDir, manager, frameworks, enhancer, project>>
besidesRequests == <<dispatchVars, materializeVars, bridgeVars, regen, templateDir, manager, frameworks, enhancer, project>>
besidesTemplates == <<dispatchVars, materializeVars, bridgeVars, regen, api, manager, frameworks, enhancer, project>>
besidesInitialization == <<dispatchVars, materializeVars, bridgeVars, regen, api, templateDir, frameworks, enhancer, project>>
besidesDetection == <<dispatchVars, materializeVars, bridgeVars, regen, api, templateDir, manager, enhancer, project>>
besidesEnhancement == <<dispatchVars, materializeVars, bridgeVars, regen, api, templateDir, manager, frameworks, project>>
besidesGeneration == <<dispatchVars, materializeVars, bridgeVars, regen, api, templateDir, manager, frameworks, enhancer>>

NoRegeneration == regen = [pc |-> "idle", options |-> <<>>, depth |-> 0, attempt |-> 1, calls |-> 0, lastError |-> "none", responseText |-> <<>>, validation |-> "none"]
NoRequests == api = [initialized |-> FALSE, at |-> <<>>, kind |-> <<>>, initStarted |-> 0, initCompleted |-> 0]
NoTemplates == templateDir = [category |-> "contracts", temp |-> {}, template |-> {}, previous |-> {}, calls |-> <<>>]
NoInitialization == manager = [pc |-> "idle", step |-> 0, dirs |-> {}, templateManager |-> "pending", nested |-> "pending", projectGenerator |-> "pending", initialized |-> FALSE, returned |-> "none"]
NoDetection == frameworks = [onDisk |-> {}, enabled |-> {}, available |-> {}, detect |-> "done", prompts |-> <<>>]
NoEnhancement == enhancer = [wrappers |-> 0, calls |-> <<>>]
NoGeneration == project = [pc |-> "idle", type |-> "token", blockchain |-> "ethereum", source |-> "none", structure |-> <<>>, dirs |-> {}, files |-> {}]

NoLaterCalls == NoRegeneration /\ NoRequests /\ NoTemplates /\ NoInitialization /\ NoDetection /\ NoEnhancement /\ NoGeneration

IdleBesidesRegeneration == NoRequests /\ NoTemplates /\ NoInitialization /\ NoDetection /\ NoEnhancement /\ NoGeneration
IdleBesidesRequests == NoRegeneration /\ NoTemplates /\ NoInitialization /\ NoDetection /\ NoEnhancement /\ NoGeneration
IdleBesidesTemplates == NoRegeneration /\ NoRequests /\ NoInitialization /\ NoDetection /\ NoEnhancement /\ NoGeneration
IdleBesidesInitialization == NoRegeneration /\ NoRequests /\ NoTemplates /\ NoDetection /\ NoEnhancement /\ NoGeneration
IdleBesidesDetection == NoRegeneration /\ NoRequests /\ NoTemplates /\ NoInitialization /\ NoEnhancement /\ NoGeneration
IdleBesidesEnhancement == NoRegeneration /\ NoRequests /\ NoTemplates /\ NoInitialization /\ NoDetection /\ NoGeneration
IdleBesidesGeneration == NoRegeneration /\ NoRequests /\ NoTemplates /\ NoInitialization /\ NoDetection /\ NoEnhancement

----------------------------------------------------------------------------
(* Bounds of the model *)

MaxRetriesBound == 3    \* caller options carry maxRetries in 0..MaxRetriesBound
MaxDelayBound == 1      \* caller options carry retryDelay in 0..MaxDelayBound
MaxChunks == 2          \* chunks one stream yields at most
MaxDispatches == 6      \* dispatches of one caller sharing a context window

(* Program constants *)

DefaultMaxRetries == 3
DefaultRetryDelay == 1000
maxContextItems == 10

----------------------------------------------------------------------------
(* Text helpers *)

NL == "\n"
Fence == "FENCE"
NoError == "none"
EmptyResponseMessage == "Received empty response from Claude API"
UnknownError == "Unknown error"

RECURSIVE Pow2(_)
Pow2(n) == IF n <= 0 THEN 1 ELSE 2 * Pow2(n - 1)

\* A caller option is {} when the key is absent and {v} when it is given.
Given(opt) == CHOOSE v \in opt : TRUE

\* a || b on numbers: 0 and undefined fall through to b
OrDefault(opt, dflt) == IF opt = {} \/ opt = {0} THEN dflt ELSE Given(opt)

\* { ...defaultOptions, ...options }: only an absent key keeps the default
Merged(opt, dflt) == IF opt = {} THEN dflt ELSE Given(opt)

----------------------------------------------------------------------------
(* Response post-processing of callClaudeAPI *)

\* Least k >= from with text[k] a newline and text[k+1] a fence; 0 when none.
RECURSIVE ClosingAt(_, _)
ClosingAt(text, from) ==
    IF from + 1 > Len(text) THEN 0
    ELSE IF text[from] = NL /\ text[from + 1] = Fence THEN from
    ELSE ClosingAt(text, from + 1)

\* Where the body of a block opened at i starts: after the fence, the optional
\* language tag and the newline; 0 when the opening does not match at i.
BodyStart(text, i, lang) ==
    LET j == IF i + 1 <= Len(text) /\ text[i + 1] = lang THEN i + 2 ELSE i + 1
    IN IF text[i] = Fence /\ j <= Len(text) /\ text[j] = NL THEN j + 1 ELSE 0

\* [...responseText.matchAll(codeRegex)].map(match => match[1]): the bodies of
\* the non-overlapping matches, scanning from i
RECURSIVE CodeBlocks(_, _, _)
CodeBlocks(text, i, lang) ==
    IF i > Len(text) THEN <<>>
    ELSE LET b == BodyStart(text, i, lang)
             k == IF b = 0 THEN 0 ELSE ClosingAt(text, b)
         IN IF k = 0 THEN CodeBlocks(text, i + 1, lang)
            ELSE <<SubSeq(text, b, k - 1)>> \o CodeBlocks(text, k + 2, lang)

\* codeBlocks.join('\n\n')
RECURSIVE JoinBlocks(_)
JoinBlocks(blocks) ==
    IF blocks = <<>> THEN <<>>
    ELSE IF Len(blocks) = 1 THEN blocks[1]
    ELSE blocks[1] \o <<NL, NL>> \o JoinBlocks(Tail(blocks))

ExtractCode(text, opts) ==
    IF opts.extractCode /\ opts.codeLanguage # {}
    THEN LET blocks == CodeBlocks(text, 1, Given(opts.codeLanguage))
         IN IF Len(blocks) > 0 THEN JoinBlocks(blocks) ELSE text
    ELSE text

RECURSIVE NewlineRun(_, _)
NewlineRun(text, i) ==
    IF i <= Len(text) /\ text[i] = NL THEN 1 + NewlineRun(text, i + 1) ELSE 0

\* responseText.replace(/\n{3,}/g, '\n\n'); the second replace rewrites a
\* match by itself
RECURSIVE CollapseNewlines(_, _)
CollapseNewlines(text, i) ==
    IF i > Len(text) THEN <<>>
    ELSE LET r == NewlineRun(text, i)
         IN IF r = 0 THEN <<text[i]>> \o CollapseNewlines(text, i + 1)
            ELSE IF r >= 3 THEN <<NL, NL>> \o CollapseNewlines(text, i + r)
            ELSE SubSeq(text, i, i + r - 1) \o CollapseNewlines(text, i + r)

FormatResponse(text, opts) ==
    IF Merged(opts.formatResponse, TRUE) THEN CollapseNewlines(text, 1) ELSE text

ProcessResponse(text, opts) == FormatResponse(ExtractCode(text, opts), opts)

----------------------------------------------------------------------------
(* The retry loop *)

\* attempt <= maxRetries + 1: the loop condition
LoopContinues(a, budget) == a <= budget + 1

\* attempt <= maxRetries: "if not the last attempt, wait before retrying"
ShouldRetry(a, budget) == a <= budget

\* A backoff that grows linearly instead of doubling
WaitTimeLinear(delay, a) == delay * a

\* retryDelay * Math.pow(2, attempt - 1)
WaitTime(delay, a) == delay * Pow2(a - 1)

\* A catch block that keeps the first error instead of the last
RecordFirstError(previous, message) == IF previous = NoError THEN message ELSE previous

\* lastError = error
RecordError(previous, message) == message

\* `... attempts: ${lastError?.message || 'Unknown error'}`
ExhaustedError(budget, err) ==
    [attempts |-> budget + 1, cause |-> IF err = NoError THEN UnknownError ELSE err]

\* contextWindow.slice(-maxContextItems) when it holds more than maxContextItems
TrimWindow(w) ==
    IF Len(w) > maxContextItems
    THEN SubSeq(w, Len(w) - maxContextItems + 1, Len(w))
    ELSE w

UserEntry(prompt) == [role |-> "User", content |-> prompt]
AssistantEntry(text) == [role |-> "Assistant", content |-> text]

\* The prompt of the n-th dispatch
Prompt(n) == <<"prompt", ToString(n)>>

\* "Update context window": the pushes go to the array the caller passed (the
\* merged callOptions holds the same reference); the slice is assigned to
\* callOptions.contextWindow alone.
UpdateContext(text) ==
    IF options.retainContext
    THEN LET pushed == <<UserEntry(Prompt(dispatches)), AssistantEntry(text)>>
         IN /\ callerWindow' = callerWindow \o pushed
            /\ contextWindow' = TrimWindow(callerWindow \o pushed)
            /\ windowHistory' = windowHistory \o pushed
    ELSE UNCHANGED <<callerWindow, contextWindow, windowHistory>>

Return(text) ==
    /\ pc' = "returned"
    /\ result' = text
    /\ thrown' = thrown
    /\ UpdateContext(text)

Throw(err) ==
    /\ pc' = "threw"
    /\ thrown' = ExhaustedError(maxRetries, err)
    /\ UNCHANGED <<result, callerWindow, contextWindow, windowHistory>>

\* What follows the loop once every attempt is used up.  sendPrompt and
\* callClaudeAPI throw; enhancedCallClaudeAPI throws if (!responseText) and
\* goes on to its result otherwise.
AfterLoop(err, text) ==
    IF method = "enhancedCallClaudeAPI" /\ text # <<>>
    THEN Return(text)
    ELSE Throw(err)

\* The catch block of the retry loop, and the loop's next test
Caught(message, entry) ==
    /\ lastError' = RecordError(lastError, message)
    /\ waits' = IF ShouldRetry(attempt, maxRetries)
                THEN Append(waits, WaitTime(retryDelay, attempt))
                ELSE waits
    /\ attempt' = attempt + 1
    /\ attemptLog' = Append(attemptLog, entry)
    /\ IF LoopContinues(attempt + 1, maxRetries)
       THEN /\ pc' = "loop"
            /\ UNCHANGED <<result, thrown, callerWindow, contextWindow, windowHistory>>
       ELSE AfterLoop(RecordError(lastError, message), responseText)

ErrorEntry(message) == [kind |-> "error", message |-> message, text |-> <<>>]
EmptyEntry == [kind |-> "empty", message |-> EmptyResponseMessage, text |-> <<>>]
TextEntry(text) == [kind |-> "text", message |-> NoError, text |-> text]

NonStreaming == method \in {"sendPrompt", "callClaudeAPI"} \/ ~options.streamResponse

\* this.client.messages.create(...) rejects
CallFails(message) ==
    /\ pc = "loop" /\ NonStreaming
    /\ Caught(message, ErrorEntry(message))
    /\ UNCHANGED <<method, options, config, maxRetries, retryDelay, messageContent,
                   responseText, delivered, chunks, dispatches>>
    /\ UNCHANGED <<materializeVars, bridgeVars, laterVars>>

\* A success path that skips the response processing
ReturnedUnprocessed(text) == text

\* What the success path hands back: sendPrompt the text itself, callClaudeAPI
\* the processed text, enhancedCallClaudeAPI the text itself
Returned(text) ==
    IF method = "callClaudeAPI" THEN ProcessResponse(text, options) ELSE text

\* this.client.messages.create(...) resolves with content[0].text = text
CallResponds(text) ==
    /\ pc = "loop" /\ NonStreaming
    /\ IF text = <<>>
       THEN /\ Caught(EmptyResponseMessage, EmptyEntry)
            /\ UNCHANGED responseText
       ELSE /\ attemptLog' = Append(attemptLog, TextEntry(text))
            /\ responseText' = IF method = "enhancedCallClaudeAPI" THEN text ELSE responseText
            /\ Return(Returned(text))
            /\ UNCHANGED <<lastError, waits, attempt>>
    /\ UNCHANGED <<method, options, config, maxRetries, retryDelay, messageContent,
                   delivered, chunks, dispatches>>
    /\ UNCHANGED <<materializeVars, bridgeVars, laterVars>>

(* The streaming path of enhancedCallClaudeAPI *)

Streaming == method = "enhancedCallClaudeAPI" /\ options.streamResponse

\* messages.create({..., stream: true}) rejects
StreamCreateFails(message) ==
    /\ pc = "loop" /\ Streaming
    /\ Caught(message, ErrorEntry(message))
    /\ UNCHANGED <<method, options, config, maxRetries, retryDelay, messageContent,
                   responseText, delivered, chunks, dispatches>>
    /\ UNCHANGED <<materializeVars, bridgeVars, laterVars>>

\* messages.create({..., stream: true}) resolves with a stream
StreamOpens ==
    /\ pc = "loop" /\ Streaming
    /\ pc' = "stream"
    /\ delivered' = <<>>
    /\ chunks' = 0
    /\ UNCHANGED <<method, options, config, maxRetries, retryDelay, attempt, lastError,
                   waits, attemptLog, result, thrown, messageContent, responseText,
                   callerWindow, contextWindow, windowHistory, dispatches>>
    /\ UNCHANGED <<materializeVars, bridgeVars, laterVars>>

\* handleChunk of a content_block_delta: messageContent += chunk.delta.text
StreamDelta(text) ==
    /\ pc = "stream" /\ chunks < MaxChunks
    /\ messageContent' = messageContent \o text
    /\ delivered' = delivered \o text
    /\ chunks' = chunks + 1
    /\ UNCHANGED <<pc, method, options, config, maxRetries, retryDelay, attempt,
                   lastError, waits, attemptLog, result, thrown, responseText,
                   callerWindow, contextWindow, windowHistory, dispatches>>
    /\ UNCHANGED <<materializeVars, bridgeVars, laterVars>>

\* handleChunk of a message_stop: onMessageComplete sets responseText
StreamStop ==
    /\ pc = "stream" /\ chunks < MaxChunks
    /\ responseText' = messageContent
    /\ chunks' = chunks + 1
    /\ UNCHANGED <<pc, method, options, config, maxRetries, retryDelay, attempt,
                   lastError, waits, attemptLog, result, thrown, messageContent,
                   delivered, callerWindow, contextWindow, windowHistory, dispatches>>
    /\ UNCHANGED <<materializeVars, bridgeVars, laterVars>>

\* the for await over the stream throws
StreamThrows(message) ==
    /\ pc = "stream"
    /\ Caught(message, ErrorEntry(message))
    /\ UNCHANGED <<method, options, config, maxRetries, retryDelay, messageContent,
                   responseText, delivered, chunks, dispatches>>
    /\ UNCHANGED <<materializeVars, bridgeVars, laterVars>>

\* the stream ends: responseText = streamHandler.getMessageContent(); break;
\* then if (!responseText) throw, else the result
StreamEnds ==
    /\ pc = "stream"
    /\ responseText' = messageContent
    /\ attemptLog' = Append(attemptLog,
                            IF delivered = <<>> THEN EmptyEntry ELSE TextEntry(delivered))
    /\ IF messageContent = <<>> THEN Throw(lastError) ELSE Return(messageContent)
    /\ UNCHANGED <<method, options, config, maxRetries, retryDelay, attempt, lastError,
                   waits, messageContent, delivered, chunks, dispatches>>
    /\ UNCHANGED <<materializeVars, bridgeVars, laterVars>>

----------------------------------------------------------------------------
(* Callers *)

ErrorMessages == {"e1", "e2"}

ResponseTexts ==
    { <<>>, <<"a">>, <<"b">>,
      <<"a", NL, NL, NL, "b">>,
      <<"t", Fence, "js", NL, "a", NL, Fence>>,
      <<Fence, NL, NL, Fence>> }

ChunkTexts == { <<"a">> }

MaxRetriesOpts == {{}} \cup {{n} : n \in 0..MaxRetriesBound}
RetryDelayOpts == {{}} \cup {{n} : n \in 0..MaxDelayBound}

\* ClaudeService constructor: maxRetries: options.maxRetries || 3,
\* retryDelay: options.retryDelay || 1000
Configs ==
    { [maxRetries |-> OrDefault(r, DefaultMaxRetries),
       retryDelay |-> OrDefault(d, DefaultRetryDelay)] :
      r \in MaxRetriesOpts, d \in RetryDelayOpts }

NoExtras == [formatResponse |-> {}, extractCode |-> FALSE, codeLanguage |-> {},
             retainContext |-> FALSE, streamResponse |-> FALSE]

RetryOptions ==
    { [maxRetries |-> r, retryDelay |-> d] : r \in MaxRetriesOpts, d \in RetryDelayOpts }

Extras(m) ==
    IF m = "sendPrompt" THEN {NoExtras}
    ELSE IF m = "callClaudeAPI"
    THEN { [NoExtras EXCEPT !.formatResponse = f, !.extractCode = x[1],
                            !.codeLanguage = x[2], !.retainContext = c] :
           f \in {{}, {FALSE}},
           x \in {<<FALSE, {}>>, <<TRUE, {}>>, <<TRUE, {"js"}>>},
           c \in BOOLEAN }
    ELSE { [NoExtras EXCEPT !.retainContext = c, !.streamResponse = st] :
           c \in BOOLEAN, st \in BOOLEAN }

Methods == {"sendPrompt", "callClaudeAPI", "enhancedCallClaudeAPI"}

OptionBag(retry, extras) ==
    [maxRetries |-> retry.maxRetries, retryDelay |-> retry.retryDelay,
     formatResponse |-> extras.formatResponse, extractCode |-> extras.extractCode,
     codeLanguage |-> extras.codeLanguage, retainContext |-> extras.retainContext,
     streamResponse |-> extras.streamResponse]

\* The budget and the delay the method's loop runs with
LoopBudget(m, opts, cfg) ==
    IF m = "sendPrompt" THEN OrDefault(opts.maxRetries, cfg.maxRetries)
    ELSE Merged(opts.maxRetries, cfg.maxRetries)

LoopDelay(m, opts, cfg) ==
    IF m = "sendPrompt" THEN OrDefault(opts.retryDelay, cfg.retryDelay)
    ELSE Merged(opts.retryDelay, cfg.retryDelay)

\* The caller invokes method m with options opts; the method reads its options
\* and enters the retry loop with attempt = 1.
Start(m, opts) ==
    /\ pc \in {"idle", "returned", "threw"}
    /\ pc' = "loop"
    /\ method' = m
    /\ options' = opts
    /\ maxRetries' = LoopBudget(m, opts, config)
    /\ retryDelay' = LoopDelay(m, opts, config)
    /\ attempt' = 1
    /\ lastError' = NoError
    /\ waits' = <<>>
    /\ attemptLog' = <<>>
    /\ result' = <<>>
    /\ thrown' = ExhaustedError(0, NoError)
    /\ messageContent' = <<>>
    /\ responseText' = <<>>
    /\ delivered' = <<>>
    /\ chunks' = 0
    /\ contextWindow' = callerWindow
    /\ dispatches' = dispatches + 1
    /\ UNCHANGED <<config, callerWindow, windowHistory>>
    /\ UNCHANGED <<materializeVars, bridgeVars, laterVars>>

\* One dispatch with any options
Dispatch ==
    /\ dispatches < 1
    /\ \E m \in Methods : \E r \in RetryOptions : \E x \in Extras(m) :
          Start(m, OptionBag(r, x))

ServiceInit ==
    /\ pc = "idle"
    /\ method = "sendPrompt"
    /\ options = OptionBag([maxRetries |-> {}, retryDelay |-> {}], NoExtras)
    /\ config \in Configs
    /\ maxRetries = config.maxRetries
    /\ retryDelay = config.retryDelay
    /\ attempt = 1
    /\ lastError = NoError
    /\ waits = <<>>
    /\ attemptLog = <<>>
    /\ result = <<>>
    /\ thrown = ExhaustedError(0, NoError)
    /\ messageContent = <<>>
    /\ responseText = <<>>
    /\ delivered = <<>>
    /\ chunks = 0
    /\ callerWindow = <<>>
    /\ contextWindow = <<>>
    /\ windowHistory = <<>>
    /\ dispatches = 0

\* No processStructure call is under way
NoMaterialization ==
    /\ mpc = "idle"
    /\ structure = <<>>
    /\ variables = <<>>
    /\ templates = <<>>
    /\ files = <<>>
    /\ dirs = {}
    /\ stack = <<>>
    /\ written = <<>>
    /\ failure = "none"
    /\ runs = 0
    /\ atEntry = [files |-> <<>>, dirs |-> {}]

\* No determineBridgeTypes call has been made
NoBridgeCall ==
    /\ bpc = "idle"
    /\ blockchains = <<>>
    /\ bridgeInfo = [bridgeTypes |-> <<>>, protocols |-> <<>>, bridgeConfigurations |-> <<>>]

Init == ServiceInit /\ NoMaterialization /\ NoBridgeCall /\ NoLaterCalls

Next ==
    \/ Dispatch
    \/ \E e \in ErrorMessages : CallFails(e)
    \/ \E t \in ResponseTexts : CallResponds(t)
    \/ \E e \in ErrorMessages : StreamCreateFails(e)
    \/ StreamOpens
    \/ \E t \in ChunkTexts : StreamDelta(t)
    \/ StreamStop
    \/ \E e \in ErrorMessages : StreamThrows(e)
    \/ StreamEnds

Spec == Init /\ [][Next]_vars

(* A caller that keeps one context window across its dispatches *)

RetainingDispatch ==
    /\ dispatches < MaxDispatches
    /\ \E m \in {"callClaudeAPI", "enhancedCallClaudeAPI"} :
       \E r \in {{0}, {1}} :
          Start(m, OptionBag([maxRetries |-> r, retryDelay |-> {}],
                             [NoExtras EXCEPT !.retainContext = TRUE]))

InitContext == Init /\ config.maxRetries = DefaultMaxRetries
                    /\ config.retryDelay = DefaultRetryDelay

NextContext ==
    \/ RetainingDispatch
    \/ CallFails("e1")
    \/ \E t \in {<<>>, <<"a">>} : CallResponds(t)

SpecContext == InitContext /\ [][NextContext]_vars

----------------------------------------------------------------------------
(* Claims about the dispatch *)

\* Remote calls made so far by the current dispatch
Calls == Len(attemptLog) + IF pc = "stream" THEN 1 ELSE 0

Dispatched == pc # "idle"
Plain == method \in {"sendPrompt", "callClaudeAPI"}

Failures == {i \in 1..Len(attemptLog) : attemptLog[i].kind # "text"}

\* C1: for every maxRetries >= 0 the caller supplies (0 included), a dispatch
\* through sendPrompt or callClaudeAPI makes at most maxRetries + 1 remote calls.
C1_CallsWithinCallerBudget ==
    (Dispatched /\ Plain /\ options.maxRetries # {})
        => Calls <= Given(options.maxRetries) + 1

MinOf(a, b) == IF a <= b THEN a ELSE b

WaitsAreExponential ==
    /\ Len(waits) = MinOf(Cardinality(Failures), maxRetries)
    /\ \A k \in 1..Len(waits) : waits[k] = retryDelay * 2^(k - 1)

\* C3 as stated: in sendPrompt and callClaudeAPI the wait after failed attempt
\* k <= maxRetries is retryDelay * 2^(k-1), the waits are strictly increasing,
\* and no wait follows the final failed attempt.
C3_BackoffDoublesAndIncreases ==
    (Dispatched /\ Plain) =>
        /\ WaitsAreExponential
        /\ \A k \in 1..Len(waits) - 1 : waits[k] < waits[k + 1]

\* C3 amended: the wait after failed attempt k <= maxRetries is
\* retryDelay * 2^(k-1) and no wait follows the final failed attempt; the waits
\* are strictly increasing whenever retryDelay > 0.
C3_BackoffDoubles ==
    (Dispatched /\ Plain) =>
        /\ WaitsAreExponential
        /\ retryDelay > 0 => \A k \in 1..Len(waits) - 1 : waits[k] < waits[k + 1]

\* Four failed attempts with maxRetries = 3: three waits, none after the last
C3_Witness ==
    /\ pc = "threw" /\ Plain /\ maxRetries = 3
    /\ Len(attemptLog) = 4
    /\ waits = <<retryDelay, 2 * retryDelay, 4 * retryDelay>>
    /\ retryDelay = DefaultRetryDelay

\* C4: when all maxRetries + 1 attempts of a sendPrompt or callClaudeAPI
\* dispatch fail, the dispatch ends in an error, never in a returned text, and
\* the error carries the error of the last failed attempt.
C4_ExhaustionCarriesLastError ==
    (Dispatched /\ Plain /\ Cardinality(Failures) = maxRetries + 1) =>
        /\ pc = "threw"
        /\ thrown.attempts = maxRetries + 1
        /\ thrown.cause = attemptLog[Len(attemptLog)].message

\* Exhaustion in which the last error differs from the first
C4_Witness ==
    /\ pc = "threw" /\ method = "callClaudeAPI"
    /\ Len(attemptLog) = maxRetries + 1 /\ maxRetries >= 1
    /\ attemptLog[1].message # attemptLog[Len(attemptLog)].message
    /\ thrown.cause = attemptLog[Len(attemptLog)].message

\* C5: in every dispatch path an attempt whose response carries no text is a
\* failed attempt: it is followed by a backoff wait while attempt <= maxRetries,
\* it never ends the dispatch as a success, and the failure is surfaced only
\* once the retry budget is used up.
C5_EmptyResponseIsRetried ==
    Dispatched =>
        /\ \A i \in 1..Len(attemptLog) :
              (attemptLog[i].kind = "empty" /\ i <= maxRetries) => Len(waits) >= i
        /\ pc = "threw" => Len(attemptLog) = maxRetries + 1
        /\ pc = "returned" => attemptLog[Len(attemptLog)].kind = "text"

LastEntries(w, n) == IF Len(w) > n THEN SubSeq(w, Len(w) - n + 1, Len(w)) ELSE w

\* C6: a caller that passes the same contextWindow to every retaining call
\* never holds more than 10 entries in it, and they are the most recent ones in
\* their original order.
C6_CallerWindowCapped ==
    /\ Len(callerWindow) <= maxContextItems
    /\ callerWindow = LastEntries(windowHistory, maxContextItems)

----------------------------------------------------------------------------
(* ProjectGenerator.processStructure: the content of a file *)

Open == <<"{", "{">>
Close == <<"}", "}">>
Backquote == "BACKQUOTE"

StartsWith(s, p) == Len(s) >= Len(p) /\ SubSeq(s, 1, Len(p)) = p
EndsWith(s, p) == Len(s) >= Len(p) /\ SubSeq(s, Len(s) - Len(p) + 1, Len(s)) = p
MatchesAt(s, i, p) == i + Len(p) - 1 <= Len(s) /\ SubSeq(s, i, i + Len(p) - 1) = p

\* new RegExp(`\\{\\{${varName}\\}\\}`, 'g'); variable names are identifiers
Placeholder(varName) == Open \o varName \o Close

\* What String.prototype.replace inserts for a replacement string: $$ is "$",
\* $& the matched text, $ followed by a backquote the text before the match,
\* $' the text after it; the regex has no groups, so any other $ stays.
RECURSIVE Substitution(_, _, _, _, _)
Substitution(value, j, matched, before, after) ==
    IF j > Len(value) THEN <<>>
    ELSE IF value[j] = "$" /\ j < Len(value)
            /\ value[j + 1] \in {"$", "&", Backquote, "'"}
         THEN (CASE value[j + 1] = "$" -> <<"$">>
                 [] value[j + 1] = "&" -> matched
                 [] value[j + 1] = Backquote -> before
                 [] OTHER -> after)
              \o Substitution(value, j + 2, matched, before, after)
         ELSE <<value[j]>> \o Substitution(value, j + 1, matched, before, after)

\* content.replace(regex, value) with a global regex, scanning from i
RECURSIVE ReplaceAll(_, _, _, _)
ReplaceAll(content, i, pattern, value) ==
    IF i > Len(content) THEN <<>>
    ELSE IF MatchesAt(content, i, pattern)
         THEN Substitution(value, 1, pattern, SubSeq(content, 1, i - 1),
                           SubSeq(content, i + Len(pattern), Len(content)))
              \o ReplaceAll(content, i + Len(pattern), pattern, value)
         ELSE <<content[i]>> \o ReplaceAll(content, i + 1, pattern, value)

\* for (const varName in variables) content = content.replace(regex, variables[varName])
RECURSIVE SubstituteVariables(_, _)
SubstituteVariables(content, bindings) ==
    IF bindings = <<>> THEN content
    ELSE SubstituteVariables(
             ReplaceAll(content, 1, Placeholder(bindings[1].name), bindings[1].value),
             Tail(bindings))

\* templateName.split('.')
RECURSIVE SplitDots(_, _)
SplitDots(s, i) ==
    IF i > Len(s) THEN <<s>>
    ELSE IF s[i] = "." THEN <<SubSeq(s, 1, i - 1)>> \o SplitDots(SubSeq(s, i + 1, Len(s)), 1)
    ELSE SplitDots(s, i + 1)

\* TemplateManager.categories
Categories == {<<"contracts">>, <<"frontend">>, <<"projects">>}

\* TemplateManager.getTemplateContent: the file's content, or a throw
GetTemplateContent(store, category, name) ==
    IF category \in Categories /\ <<category, name>> \in DOMAIN store
    THEN [raised |-> FALSE, content |-> store[<<category, name>>]]
    ELSE [raised |-> TRUE, content |-> <<>>]

\* The body of the try: const [category, name] = templateName.split('.'); the
\* lookup when category && name && categories[category]
ResolveTemplate(content, store) ==
    LET templateName == SubSeq(content, 3, Len(content) - 2)
        parts == SplitDots(templateName, 1)
        category == parts[1]
        name == IF Len(parts) >= 2 THEN parts[2] ELSE <<>>
    IN IF category # <<>> /\ name # <<>> /\ category \in Categories
       THEN LET got == GetTemplateContent(store, category, name)
            IN IF got.raised THEN [raised |-> TRUE, content |-> content] ELSE got
       ELSE [raised |-> FALSE, content |-> content]

\* A processStructure without the try/catch around the lookup
RethrowResolution(outcome) == outcome

\* catch (error) { console.warn(...) }: the content stays as it was
CatchResolution(outcome) == [outcome EXCEPT !.raised = FALSE]

\* The content processStructure writes for a string value: the variables are
\* replaced first, then a result that starts with {{ and ends with }} is looked
\* up as a template reference.
FileContent(value, bindings, store) ==
    LET content == SubstituteVariables(value, bindings)
    IN IF StartsWith(content, Open) /\ EndsWith(content, Close)
       THEN CatchResolution(ResolveTemplate(content, store))
       ELSE [raised |-> FALSE, content |-> content]

----------------------------------------------------------------------------
(* ProjectGenerator.processStructure: the traversal *)

NullValue == [kind |-> "null", text |-> <<>>, entries |-> <<>>]
StringValue(t) == [kind |-> "string", text |-> t, entries |-> <<>>]
ObjectValue(e) == [kind |-> "object", text |-> <<>>, entries |-> e]

Parent(path) == SubSeq(path, 1, Len(path) - 1)
Prefixes(path) == {SubSeq(path, 1, n) : n \in 0..Len(path)}

\* fs.writeFile succeeds when the parent is a directory and the path is not one
CanWrite(path) == Parent(path) \in dirs /\ path \notin dirs

\* fs.mkdir without { recursive: true }: an existing path is an error
MkdirNotRecursive(path) ==
    path \notin dirs /\ path \notin DOMAIN files /\ Parent(path) \in dirs

\* fs.mkdir(path, { recursive: true }) succeeds unless a file is in the way
CanMkdir(path) == Prefixes(path) \cap DOMAIN files = {}

MaxRuns == 2        \* calls of processStructure on one destination

\* Returning from the processStructure calls whose loop is over
RECURSIVE Unwind(_)
Unwind(stk) ==
    IF stk = <<>> THEN <<>>
    ELSE IF stk[1].entries = <<>> THEN Unwind(Tail(stk))
    ELSE stk

\* The loop of the innermost call moves to its next key
Advance(stk) == Unwind(<<[stk[1] EXCEPT !.entries = Tail(@)]>> \o Tail(stk))

Current == stack[1].entries[1]
\* path.join(basePath, key)
CurrentPath == stack[1].basePath \o <<Current.key>>

Continue(stk) ==
    /\ stack' = stk
    /\ mpc' = IF stk = <<>> THEN "done" ELSE "running"
    /\ failure' = failure

\* A failure that removes what the call had created
AbortWithRollback(why) ==
    /\ mpc' = "failed"
    /\ failure' = why
    /\ files' = atEntry.files
    /\ dirs' = atEntry.dirs
    /\ UNCHANGED <<stack, written>>

\* An awaited fs call rejects: the error leaves processStructure
Abort(why) ==
    /\ mpc' = "failed"
    /\ failure' = why
    /\ UNCHANGED <<stack, files, dirs, written>>

\* The first frame: basePath is the destination, the loop is over structure
Enter ==
    /\ Continue(Unwind(<<[basePath |-> <<>>, entries |-> structure]>>))
    /\ runs' = runs + 1
    /\ atEntry' = [files |-> files, dirs |-> dirs]
    /\ UNCHANGED <<structure, variables, templates, files, dirs, written>>
    /\ UNCHANGED <<dispatchVars, bridgeVars, laterVars>>

\* processStructure(projectDir, structure, variables) is called
CallProcessStructure ==
    /\ mpc = "idle"
    /\ Enter

\* It is called once more with the same arguments after it has returned
CallProcessStructureAgain ==
    /\ mpc = "done" /\ runs < MaxRuns
    /\ Enter

\* value === null: await fs.writeFile(currentPath, '')
WriteEmptyFile(fsOk) ==
    /\ mpc = "running" /\ Current.value.kind = "null"
    /\ IF fsOk /\ CanWrite(CurrentPath)
       THEN /\ files' = (CurrentPath :> <<>>) @@ files
            /\ written' = Append(written, [path |-> CurrentPath, value |-> NullValue,
                                           content |-> <<>>])
            /\ Continue(Advance(stack))
            /\ UNCHANGED dirs
       ELSE Abort("fs")
    /\ UNCHANGED <<structure, variables, templates, runs, atEntry>>
    /\ UNCHANGED <<dispatchVars, bridgeVars, laterVars>>

\* typeof value === 'string': substitute, resolve, await fs.writeFile(currentPath, content)
WriteContentFile(fsOk) ==
    /\ mpc = "running" /\ Current.value.kind = "string"
    /\ LET out == FileContent(Current.value.text, variables, templates)
       IN IF out.raised THEN Abort("lookup")
          ELSE IF fsOk /\ CanWrite(CurrentPath)
          THEN /\ files' = (CurrentPath :> out.content) @@ files
               /\ written' = Append(written, [path |-> CurrentPath, value |-> Current.value,
                                              content |-> out.content])
               /\ Continue(Advance(stack))
               /\ UNCHANGED dirs
          ELSE Abort("fs")
    /\ UNCHANGED <<structure, variables, templates, runs, atEntry>>
    /\ UNCHANGED <<dispatchVars, bridgeVars, laterVars>>

\* typeof value === 'object': await fs.mkdir(currentPath, { recursive: true })
\* and the recursive call
MakeDirectory(fsOk) ==
    /\ mpc = "running" /\ Current.value.kind = "object"
    /\ IF fsOk /\ CanMkdir(CurrentPath)
       THEN /\ dirs' = dirs \cup Prefixes(CurrentPath)
            /\ Continue(Unwind(<<[basePath |-> CurrentPath,
                                  entries |-> Current.value.entries]>>
                               \o Advance(stack)))
            /\ UNCHANGED <<files, written>>
       ELSE Abort("fs")
    /\ UNCHANGED <<structure, variables, templates, runs, atEntry>>
    /\ UNCHANGED <<dispatchVars, bridgeVars, laterVars>>

----------------------------------------------------------------------------
(* Template trees, bindings and template stores *)

MaxDepth == 2       \* nesting depth of a template tree
MaxEntries == 3     \* keys of a template tree, over all its levels

Keys == {"a", "b.txt"}

Ref(category, name) == Open \o <<category, ".", name>> \o Close

TemplateStrings ==
    { <<"Hello ">> \o Placeholder(<<"ProjectName">>),
      Placeholder(<<"ProjectName">>) \o <<"-">> \o Placeholder(<<"TokenName">>),
      Ref("missing", "frag"),
      Ref("contracts", "frag") }

Leaves == {NullValue} \cup {StringValue(t) : t \in TemplateStrings}

RECURSIVE EntryCount(_)
EntryCount(entries) ==
    IF entries = <<>> THEN 0
    ELSE 1 + EntryCount(entries[1].value.entries) + EntryCount(Tail(entries))

KeysOf(entries) == {entries[i].key : i \in DOMAIN entries}

\* The objects nested at most d deep with at most n keys in all, their keys in
\* every insertion order
RECURSIVE Objects(_, _)
Objects(d, n) ==
    IF d = 0 \/ n = 0 THEN {<<>>}
    ELSE {<<>>} \cup
         UNION { UNION { { <<[key |-> k, value |-> v]>> \o rest :
                           rest \in { r \in Objects(d, n - 1 - EntryCount(v.entries)) :
                                      k \notin KeysOf(r) } } :
                         v \in Leaves \cup
                               (IF d > 1
                                THEN {ObjectValue(o) : o \in Objects(d - 1, n - 1)}
                                ELSE {}) } :
                 k \in Keys }

Binding(name, value) == [name |-> <<name>>, value |-> value]

\* generateProjectFiles passes ProjectName before TokenName
BindingLists ==
    { <<>>,
      <<Binding("ProjectName", <<"World">>)>>,
      <<Binding("ProjectName", <<"$", "&">>)>>,
      <<Binding("ProjectName", Placeholder(<<"TokenName">>)),
        Binding("TokenName", <<"y">>)>> }

TemplateStores ==
    { <<>>,
      (<< <<"contracts">>, <<"frag">> >> :>
           (<<"Hi ">> \o Placeholder(<<"ProjectName">>))) }

InitMaterialize ==
    /\ ServiceInit
    /\ NoBridgeCall
    /\ NoLaterCalls
    /\ config.maxRetries = DefaultMaxRetries /\ config.retryDelay = DefaultRetryDelay
    /\ mpc = "idle"
    /\ structure \in Objects(MaxDepth, MaxEntries)
    /\ variables \in BindingLists
    /\ templates \in TemplateStores
    /\ files = <<>>
    /\ dirs = {<<>>}
    /\ stack = <<>>
    /\ written = <<>>
    /\ failure = "none"
    /\ runs = 0
    /\ atEntry = [files |-> <<>>, dirs |-> {<<>>}]

NextMaterialize ==
    \/ CallProcessStructure
    \/ \E fsOk \in BOOLEAN : WriteEmptyFile(fsOk)
    \/ \E fsOk \in BOOLEAN : WriteContentFile(fsOk)
    \/ \E fsOk \in BOOLEAN : MakeDirectory(fsOk)

SpecMaterialize == InitMaterialize /\ [][NextMaterialize]_vars

\* The same tree is materialized into the same destination repeatedly
NextRerun == NextMaterialize \/ CallProcessStructureAgain

SpecRerun == InitMaterialize /\ [][NextRerun]_vars

----------------------------------------------------------------------------
(* Materialization: what the specification asks of processStructure *)

\* A string that is, as a whole, {{category.name}}
IsWholeReference(text) ==
    /\ Len(text) = 7
    /\ StartsWith(text, Open) /\ EndsWith(text, Close)
    /\ text[4] = "."
    /\ {text[3], text[5]} \cap {"{", "}", "."} = {}

RefKey(text) == << <<text[3]>>, <<text[5]>> >>

\* The store holds the fragment the reference names
Resolves(text) == IsWholeReference(text) /\ RefKey(text) \in DOMAIN templates

\* The store is asked for the fragment and raises
RaisesOnLookup(text) ==
    /\ IsWholeReference(text)
    /\ RefKey(text)[1] \in Categories
    /\ RefKey(text) \notin DOMAIN templates

\* Every {{V}} with V bound becomes V's value, in one pass over the text
RECURSIVE SimultaneousSubstitute(_, _, _)
SimultaneousSubstitute(text, i, bindings) ==
    IF i > Len(text) THEN <<>>
    ELSE LET hits == {k \in DOMAIN bindings :
                          MatchesAt(text, i, Placeholder(bindings[k].name))}
         IN IF hits = {}
            THEN <<text[i]>> \o SimultaneousSubstitute(text, i + 1, bindings)
            ELSE LET k == CHOOSE h \in hits : \A g \in hits : h <= g
                 IN bindings[k].value
                    \o SimultaneousSubstitute(
                           text, i + Len(Placeholder(bindings[k].name)), bindings)

\* The effective content of a string value: the fragment of a resolved
\* reference, else the string itself
EffectiveContent(text) == IF Resolves(text) THEN templates[RefKey(text)] ELSE text

SpecifiedContent(text) == SimultaneousSubstitute(EffectiveContent(text), 1, variables)

\* The keys of a tree with their paths from the root
RECURSIVE Nodes(_, _)
Nodes(entries, base) ==
    IF entries = <<>> THEN {}
    ELSE LET here == base \o <<entries[1].key>>
         IN {[path |-> here, value |-> entries[1].value]}
            \cup Nodes(entries[1].value.entries, here)
            \cup Nodes(Tail(entries), base)

TreeNodes == Nodes(structure, <<>>)

WrittenStrings == {i \in DOMAIN written : written[i].value.kind = "string"}

\* C7: when processStructure has returned, the destination holds exactly a
\* directory for every key whose value is a nested tree, an empty file for
\* every key whose value is null and, for every key whose value is a string,
\* a file holding that string's effective content with the bindings
\* substituted, each at the path formed by the keys from the root.
C7_ProducesExactlyTheTree ==
    mpc = "done" =>
        /\ dirs = {<<>>} \cup {n.path : n \in {m \in TreeNodes : m.value.kind = "object"}}
        /\ DOMAIN files = {n.path : n \in {m \in TreeNodes : m.value.kind # "object"}}
        /\ \A n \in TreeNodes :
               /\ n.value.kind = "null" => files[n.path] = <<>>
               /\ n.value.kind = "string" => files[n.path] = SpecifiedContent(n.value.text)

\* C8: the content written for a string value that is not a reference the
\* store resolves (those are C9's) is the string with every {{V}} of a bound
\* name V replaced by V's value and every other placeholder left verbatim.
C8_BoundPlaceholdersReplacedByValue ==
    \A i \in WrittenStrings :
        ~Resolves(written[i].value.text) =>
            written[i].content = SimultaneousSubstitute(written[i].value.text, 1, variables)

\* C9: the content written for a string value that is, as a whole, a
\* reference the store resolves is the fragment's content with every bound
\* {{VarName}} substituted.
C9_FragmentIsSubstituted ==
    \A i \in WrittenStrings :
        Resolves(written[i].value.text) =>
            written[i].content =
                SimultaneousSubstitute(templates[RefKey(written[i].value.text)], 1, variables)

\* C10: a lookup on which the store raises never aborts processStructure (it
\* fails only when the file system does), the file of such a reference holds
\* the literal reference string, and when processStructure has returned every
\* key of the tree is a file or a directory of the destination.
C10_FailedLookupFallsBackToLiteral ==
    /\ mpc = "failed" => failure = "fs"
    /\ \A i \in WrittenStrings :
           RaisesOnLookup(written[i].value.text) =>
               /\ written[i].content = written[i].value.text
               /\ files[written[i].path] = written[i].value.text
    /\ mpc = "done" => \A n \in TreeNodes : n.path \in DOMAIN files \cup dirs

\* A completed run in which the store raised on a reference and a later entry
\* of the tree was materialized after it
C10_Witness ==
    /\ mpc = "done"
    /\ \E i \in WrittenStrings :
           /\ RaisesOnLookup(written[i].value.text)
           /\ i < Len(written)
           /\ files[written[i].path] = Ref("contracts", "frag")

\* C11: in a second run with the same tree, bindings and destination no
\* entry is refused because its directory or file already exists, and when
\* the second run has returned the files and directories are those the
\* destination held when it began, which is the state the first run left.
C11_RerunIsIdempotent ==
    runs >= 2 =>
        /\ mpc = "running" =>
               IF Current.value.kind = "object"
               THEN CanMkdir(CurrentPath)
               ELSE CanWrite(CurrentPath)
        /\ mpc = "done" => files = atEntry.files /\ dirs = atEntry.dirs

\* A second run has returned over a destination holding a directory and a file
C11_Witness ==
    /\ runs = 2 /\ mpc = "done"
    /\ dirs # {<<>>}
    /\ DOMAIN files # {}

\* The keys of a tree in the order processStructure visits them
RECURSIVE Traversal(_, _)
Traversal(entries, base) ==
    IF entries = <<>> THEN <<>>
    ELSE LET here == base \o <<entries[1].key>>
         IN <<[path |-> here, value |-> entries[1].value]>>
            \o Traversal(entries[1].value.entries, here)
            \o Traversal(Tail(entries), base)

VisitOrder == Traversal(structure, <<>>)

\* The number of the entry at which processStructure stands
Position == CHOOSE k \in DOMAIN VisitOrder : VisitOrder[k].path = CurrentPath

Earlier == {VisitOrder[j] : j \in 1..(Position - 1)}

\* C12: when an fs call of processStructure fails the call ends with that
\* failure, and the destination then holds exactly the files and directories
\* of the entries visited before the failing one: none of them is removed,
\* and neither the failing entry nor any later one is created.
C12_WriteFailureStopsWithoutRollback ==
    mpc = "failed" =>
        /\ failure = "fs"
        /\ DOMAIN files = {n.path : n \in {m \in Earlier : m.value.kind # "object"}}
        /\ dirs = {<<>>} \cup {n.path : n \in {m \in Earlier : m.value.kind = "object"}}

\* A file write failed after an entry was created and before another was due
C12_Witness ==
    /\ mpc = "failed" /\ failure = "fs"
    /\ Current.value.kind # "object"
    /\ Position > 1 /\ Position < Len(VisitOrder)

----------------------------------------------------------------------------
(* ClaudeService.determineBridgeTypes *)

EvmNames == {"ethereum", "bnbchain", "base", "polygon", "avalanche", "arbitrum"}

\* list.includes(x)
Includes(list, x) == \E i \in DOMAIN list : list[i] = x

IsEvm(chain) == chain \in EvmNames

\* blockchains.filter(chain => [...].includes(chain))
EvmChains(list) == SelectSeq(list, IsEvm)

\* bridgeConfigurations[chainPair] = value; the key `${a}-${b}` is the pair <<a, b>>
Assign(cfg, a, b, value) == (<<a, b>> :> value) @@ cfg

GasToken(chain) ==
    IF chain = "ethereum" THEN "ETH" ELSE IF chain = "bnbchain" THEN "BNB" ELSE "MATIC"

SolanaConfig(evmChain) ==
    [primaryProtocol |-> "Wormhole",
     backupProtocol |-> "Chainlink CCIP",
     gasToken |-> GasToken(evmChain),
     estimatedFee |-> "0.001",
     confirmationBlocks |-> IF evmChain = "ethereum" THEN 12 ELSE 5,
     timeEstimate |-> "10-30 minutes"]

\* evmChains.forEach(evmChain => bridgeConfigurations[`${evmChain}-solana`] = ...)
RECURSIVE SolanaLoop(_, _, _)
SolanaLoop(cfg, evm, i) ==
    IF i > Len(evm) THEN cfg
    ELSE SolanaLoop(Assign(cfg, evm[i], "solana", SolanaConfig(evm[i])), evm, i + 1)

\* The special cases of a pair with ethereum, else LayerZero backed by Axelar
PairProtocols(chain1, chain2) ==
    IF {chain1, chain2} = {"ethereum", "polygon"}
    THEN <<"Polygon PoS Bridge", "LayerZero">>
    ELSE IF {chain1, chain2} = {"ethereum", "arbitrum"}
    THEN <<"Arbitrum Bridge", "LayerZero">>
    ELSE IF {chain1, chain2} = {"ethereum", "avalanche"}
    THEN <<"Avalanche Bridge", "Axelar Network">>
    ELSE <<"LayerZero", "Axelar Network">>

\* gasToken: chain1 === 'ethereum' ? 'ETH' : chain1 === 'bnbchain' ? 'BNB' : 'MATIC'
PairGasToken(chain1, chain2) == GasToken(chain1)

PairConfig(chain1, chain2) ==
    [primaryProtocol |-> PairProtocols(chain1, chain2)[1],
     backupProtocol |-> PairProtocols(chain1, chain2)[2],
     gasToken |-> PairGasToken(chain1, chain2),
     estimatedFee |-> "0.0005",
     confirmationBlocks |-> IF chain1 = "ethereum" \/ chain2 = "ethereum" THEN 12 ELSE 5,
     timeEstimate |-> "5-15 minutes"]

\* for (i = 0; i < n; i++) for (j = i + 1; j < n; j++), with positions from 1
RECURSIVE PairLoop(_, _, _, _)
PairLoop(cfg, evm, i, j) ==
    IF i > Len(evm) THEN cfg
    ELSE IF j > Len(evm) THEN PairLoop(cfg, evm, i + 1, i + 2)
    ELSE PairLoop(Assign(cfg, evm[i], evm[j], PairConfig(evm[i], evm[j])), evm, i, j + 1)

\* A protocols list returned as accumulated
KeepDuplicates(list) == list

\* [...new Set(protocols)]: the first occurrence of every name, in order
RECURSIVE Unique(_)
Unique(list) ==
    IF list = <<>> THEN <<>>
    ELSE LET front == Unique(SubSeq(list, 1, Len(list) - 1))
             last == list[Len(list)]
         IN IF Includes(front, last) THEN front ELSE Append(front, last)

When(cond, list) == IF cond THEN list ELSE <<>>

\* The chain-specific rule of chain: it and ethereum are both in the list
Specific(list, chain) == Includes(list, chain) /\ Includes(list, "ethereum")

\* The bridge types pushed before the fallback is considered
RuleBridgeTypes(list) ==
    LET evm == EvmChains(list)
    IN When(Len(evm) > 0 /\ Includes(list, "solana"), <<"EVM-Solana Bridge">>)
       \o When(Len(evm) > 1, <<"EVM-to-EVM Bridge">>)
       \o When(Specific(list, "polygon"), <<"Polygon PoS Bridge">>)
       \o When(Specific(list, "avalanche"), <<"Avalanche Bridge">>)
       \o When(Specific(list, "arbitrum"), <<"Arbitrum Bridge">>)

\* The protocols pushed by the rules
RuleProtocols(list) ==
    LET evm == EvmChains(list)
    IN When(Len(evm) > 0 /\ Includes(list, "solana"), <<"Wormhole", "Chainlink CCIP">>)
       \o When(Len(evm) > 1, <<"Axelar Network", "LayerZero", "Hyperlane", "Connext">>)
       \o When(Specific(list, "polygon"), <<"Polygon PoS">>)
       \o When(Specific(list, "avalanche"), <<"Avalanche Bridge">>)
       \o When(Specific(list, "arbitrum"), <<"Arbitrum Bridge">>)

\* A fallback that is used whatever the rules pushed
AlwaysGeneric(bridgeTypes) == TRUE

\* A function without the generic fallback
NeverGeneric(bridgeTypes) == FALSE

\* bridgeTypes.length === 0
NeedsGeneric(bridgeTypes) == Len(bridgeTypes) = 0

\* A function that pushes no generic messaging protocol
NoMessagingProtocol == <<>>

\* protocols.push('Chainlink CCIP')
MessagingProtocol == <<"Chainlink CCIP">>

DetermineBridgeTypes(list) ==
    LET evm == EvmChains(list)
        hasSolana == Includes(list, "solana")
        types == RuleBridgeTypes(list)
        generic == NeedsGeneric(types)
        withSolana == IF Len(evm) > 0 /\ hasSolana THEN SolanaLoop(<<>>, evm, 1) ELSE <<>>
        withPairs == IF Len(evm) > 1 THEN PairLoop(withSolana, evm, 1, 2) ELSE withSolana
    IN [bridgeTypes |-> types \o When(generic, <<"Generic Cross-Chain Bridge">>),
        protocols |-> Unique(RuleProtocols(list) \o MessagingProtocol
                             \o When(generic, <<"Generic Bridge Protocol">>)),
        bridgeConfigurations |-> withPairs]

MaxChains == 3      \* length of the list handed to determineBridgeTypes

ChainNames == EvmNames \cup {"solana", "near"}

RECURSIVE ChainLists(_)
ChainLists(n) ==
    IF n = 0 THEN {<<>>}
    ELSE ChainLists(n - 1)
         \cup {Append(l, c) : l \in {k \in ChainLists(n - 1) : Len(k) = n - 1},
                              c \in ChainNames}

\* this.determineBridgeTypes(blockchains)
CallDetermineBridgeTypes ==
    /\ bpc = "idle"
    /\ bpc' = "returned"
    /\ bridgeInfo' = DetermineBridgeTypes(blockchains)
    /\ UNCHANGED blockchains
    /\ UNCHANGED <<dispatchVars, materializeVars, laterVars>>

InitBridge ==
    /\ ServiceInit
    /\ NoLaterCalls
    /\ config.maxRetries = DefaultMaxRetries /\ config.retryDelay = DefaultRetryDelay
    /\ NoMaterialization
    /\ bpc = "idle"
    /\ blockchains \in ChainLists(MaxChains)
    /\ bridgeInfo = [bridgeTypes |-> <<>>, protocols |-> <<>>, bridgeConfigurations |-> <<>>]

NextBridge == CallDetermineBridgeTypes

SpecBridge == InitBridge /\ [][NextBridge]_vars

----------------------------------------------------------------------------
(* Claims about determineBridgeTypes *)

Generic == "Generic Cross-Chain Bridge"
Recognized == EvmNames \cup {"solana"}

\* The positions of the list that hold an EVM chain
EvmPositions(list) == {i \in DOMAIN list : list[i] \in EvmNames}

\* One of the EVM-Solana, EVM-to-EVM or chain-specific rules applies to the list
SomeRuleApplies(list) ==
    \/ EvmPositions(list) # {} /\ Includes(list, "solana")
    \/ Cardinality(EvmPositions(list)) > 1
    \/ /\ Includes(list, "ethereum")
       /\ \E c \in {"polygon", "avalanche", "arbitrum"} : Includes(list, c)

\* C13: the protocols list that determineBridgeTypes returns holds no name
\* twice, for every list of chains, lists that repeat a chain included.
C13_ProtocolsHaveNoDuplicates ==
    bpc = "returned" =>
        \A i, j \in DOMAIN bridgeInfo.protocols :
            bridgeInfo.protocols[i] = bridgeInfo.protocols[j] => i = j

\* A list that repeats a chain and makes two rules push the same protocol
C13_Witness ==
    /\ bpc = "returned"
    /\ blockchains = <<"ethereum", "solana", "ethereum">>
    /\ Includes(bridgeInfo.protocols, "Wormhole")

\* C14: the generic bridge type is returned if and only if no rule applies to
\* the list, it then stands alone, and a single unrecognized chain yields
\* exactly the list holding the generic bridge type.
C14_GenericIffNoRuleContributed ==
    bpc = "returned" =>
        /\ Includes(bridgeInfo.bridgeTypes, Generic) <=> ~SomeRuleApplies(blockchains)
        /\ Includes(bridgeInfo.bridgeTypes, Generic) <=> bridgeInfo.bridgeTypes = <<Generic>>
        /\ (Len(blockchains) = 1 /\ blockchains[1] \notin Recognized)
               => bridgeInfo.bridgeTypes = <<Generic>>

\* The call with a single unrecognized chain has returned
C14_Witness ==
    /\ bpc = "returned"
    /\ blockchains = <<"near">>
    /\ bridgeInfo.bridgeTypes = <<Generic>>

\* C15: determineBridgeTypes returns for every list of chains, and the
\* bridgeTypes and the protocols it returns are both non-empty.
C15_TotalWithNonEmptyResult ==
    /\ bpc = "idle" =>
           bridgeInfo.bridgeTypes = <<>> /\ DetermineBridgeTypes(blockchains).protocols # <<>>
    /\ bpc = "returned" =>
           /\ bridgeInfo.bridgeTypes # <<>>
           /\ bridgeInfo.protocols # <<>>

\* The call with the empty list has returned
C15_Witness ==
    /\ bpc = "returned"
    /\ blockchains = <<>>
    /\ bridgeInfo.bridgeTypes # <<>>

\* C16: the protocols returned always hold Chainlink CCIP.
C16_ProtocolsHoldMessagingProtocol ==
    bpc = "returned" => Includes(bridgeInfo.protocols, "Chainlink CCIP")

\* The generic fallback was used and Chainlink CCIP is among the protocols
C16_Witness ==
    /\ bpc = "returned"
    /\ Includes(bridgeInfo.bridgeTypes, Generic)
    /\ Includes(bridgeInfo.protocols, "Generic Bridge Protocol")
    /\ Includes(bridgeInfo.protocols, "Chainlink CCIP")
    /\ Len(blockchains) = 2

\* The lists that are permutations of list
Reorderings(list) ==
    {[i \in DOMAIN list |-> list[f[i]]] :
        f \in {g \in [DOMAIN list -> DOMAIN list] :
                   \A i, j \in DOMAIN list : g[i] = g[j] => i = j}}

\* The configurations by unordered pair of chains
ByUnorderedPair(cfg) == {[pair |-> {k[1], k[2]}, value |-> cfg[k]] : k \in DOMAIN cfg}

\* C17: every permutation of the list yields the same bridgeTypes, the same
\* protocols and, for each unordered pair of chains, the same configuration.
C17_ResultDependsOnChainSetOnly ==
    bpc = "returned" =>
        \A other \in Reorderings(blockchains) :
            LET info == DetermineBridgeTypes(other)
            IN /\ info.bridgeTypes = bridgeInfo.bridgeTypes
               /\ info.protocols = bridgeInfo.protocols
               /\ ByUnorderedPair(info.bridgeConfigurations)
                      = ByUnorderedPair(bridgeInfo.bridgeConfigurations)

\* The unordered pairs that are to have a configuration
ExpectedPairs(list) ==
    LET evm == {list[i] : i \in EvmPositions(list)}
    IN {{p[1], p[2]} : p \in {q \in evm \X evm : q[1] # q[2]}}
       \cup (IF Includes(list, "solana") THEN {{a, "solana"} : a \in evm} ELSE {})

\* C18: bridgeConfigurations holds one entry per unordered pair of distinct
\* EVM chains present and per EVM chain with solana when solana is present,
\* no entry pairing a chain with itself and no two entries for one pair.
C18_OneEntryPerUnorderedPair ==
    bpc = "returned" =>
        LET keys == DOMAIN bridgeInfo.bridgeConfigurations
        IN /\ \A k \in keys : k[1] # k[2]
           /\ \A k, l \in keys : {k[1], k[2]} = {l[1], l[2]} => k = l
           /\ {{k[1], k[2]} : k \in keys} = ExpectedPairs(blockchains)

----------------------------------------------------------------------------
(* Claims about code extraction and streaming *)

\* The inner contents of the fenced blocks of a text, tagged js or untagged
FencedBlocks(text) == CodeBlocks(text, 1, "js")

\* C19: a callClaudeAPI call with extractCode = true that succeeds returns
\* the response text unchanged when the text holds no fenced block, and
\* otherwise only the inner contents of its fenced blocks, in their order.
C19_ExtractionReturnsBlocksOrRawText ==
    (pc = "returned" /\ method = "callClaudeAPI" /\ options.extractCode) =>
        LET text == attemptLog[Len(attemptLog)].text
            blocks == FencedBlocks(text)
        IN result = IF blocks = <<>> THEN text ELSE JoinBlocks(blocks)

\* C20: a streaming enhancedCallClaudeAPI call that succeeds returns the
\* concatenation of the chunks of its successful attempt only, whatever the
\* failed attempts before it had delivered.
C20_StreamedResultIsOfSuccessfulAttempt ==
    (pc = "returned" /\ Streaming /\ attemptLog[Len(attemptLog)].kind = "text") =>
        result = attemptLog[Len(attemptLog)].text

----------------------------------------------------------------------------
(* Claims about the frame of a dispatch *)

\* C21: the context window of a dispatch is changed only by a successful
\* attempt: while the dispatch runs and when it has thrown the window is as it
\* was at the start (empty), and a window that holds entries holds the two of
\* a dispatch whose last attempt succeeded.
C21_WindowChangedOnlyBySuccess ==
    Dispatched =>
        /\ pc # "returned" =>
               callerWindow = <<>> /\ contextWindow = <<>> /\ windowHistory = <<>>
        /\ windowHistory # <<>> =>
               /\ attemptLog[Len(attemptLog)].kind = "text"
               /\ Len(windowHistory) = 2
               /\ callerWindow = windowHistory

----------------------------------------------------------------------------
\* A service built with the default configuration, nothing called yet
InitDefault ==
    Init /\ config.maxRetries = DefaultMaxRetries /\ config.retryDelay = DefaultRetryDelay

----------------------------------------------------------------------------
(* enhancedCallClaudeAPI: response validation and regeneration *)

MaxRegenRetries == 2    \* callOptions.maxRetries of a validating call

RegenTexts == {<<>>, <<"a">>, <<"a", "b">>}

\* The validationCriteria a caller passes: { minLength }
MinLengths == {0, 2}

\* claudeExtensions.validateResponse: response.length < minLength is an issue
IsValid(text, criteria) == ~(Len(text) < criteria.minLength)

\* A recursive call that keeps validating
RegenerateWithValidation(opts) == opts

\* { ...callOptions, validateResponse: false }
RegenerateOptions(opts) == [opts EXCEPT !.validateResponse = FALSE]

\* What follows the retry loop: if (!responseText) throw; then the validation
\* and, on an invalid response with regenerateOnInvalidResponse, the recursive
\* call, whose outcome is the outcome of this call
AfterRetryLoop(r) ==
    IF r.responseText = <<>> THEN [r EXCEPT !.pc = "threw"]
    ELSE IF r.options.validateResponse
    THEN IF ~IsValid(r.responseText, r.options.validationCriteria)
            /\ r.options.regenerateOnInvalidResponse
         THEN [r EXCEPT !.options = RegenerateOptions(@), !.depth = @ + 1,
                        !.attempt = 1, !.lastError = NoError,
                        !.responseText = <<>>, !.validation = "none"]
         ELSE [r EXCEPT !.pc = "returned",
                        !.validation = IF IsValid(r.responseText, r.options.validationCriteria)
                                       THEN "valid" ELSE "invalid"]
    ELSE [r EXCEPT !.pc = "returned"]

\* enhancedCallClaudeAPI(input, opts) is called, without streaming
EnhancedCall(opts) ==
    /\ regen.pc = "idle"
    /\ regen' = [pc |-> "loop", options |-> opts, depth |-> 0, attempt |-> 1,
                 calls |-> 0, lastError |-> NoError, responseText |-> <<>>,
                 validation |-> "none"]
    /\ UNCHANGED besidesRegeneration

\* The catch block of an attempt and the loop's next test
RegenCaught(message) ==
    LET r == [regen EXCEPT !.calls = @ + 1, !.lastError = message, !.attempt = @ + 1]
    IN regen' = IF LoopContinues(r.attempt, r.options.maxRetries)
                THEN r ELSE AfterRetryLoop(r)

\* this.client.messages.create(apiRequest) rejects
RegenCallFails(message) ==
    /\ regen.pc = "loop"
    /\ RegenCaught(message)
    /\ UNCHANGED besidesRegeneration

\* this.client.messages.create(apiRequest) resolves with content[0].text = text
RegenCallResponds(text) ==
    /\ regen.pc = "loop"
    /\ IF text = <<>>
       THEN RegenCaught(EmptyResponseMessage)
       ELSE regen' = AfterRetryLoop([regen EXCEPT !.calls = @ + 1, !.responseText = text])
    /\ UNCHANGED besidesRegeneration

RegenOptions ==
    { [maxRetries |-> n, validateResponse |-> v, regenerateOnInvalidResponse |-> g,
       validationCriteria |-> [minLength |-> m]] :
      n \in 0..MaxRegenRetries, v \in BOOLEAN, g \in BOOLEAN, m \in MinLengths }

NextRegenerate ==
    \/ \E opts \in RegenOptions : EnhancedCall(opts)
    \/ \E e \in ErrorMessages : RegenCallFails(e)
    \/ \E t \in RegenTexts : RegenCallResponds(t)

SpecRegenerate == InitDefault /\ [][NextRegenerate]_vars

\* C22: a top-level enhancedCallClaudeAPI call regenerates at most once, the
\* regenerating call runs with validation off, and the remote calls of the
\* top-level call number at most 2 * (maxRetries + 1).
C22_AtMostOneRegeneration ==
    regen.pc # "idle" =>
        /\ regen.depth <= 1
        /\ regen.depth = 1 => ~regen.options.validateResponse
        /\ regen.calls <= 2 * (regen.options.maxRetries + 1)
        /\ regen.attempt <= regen.options.maxRetries + 2

\* A call that used every attempt twice: the response that came on the last
\* attempt was invalid, and so was the last one of the regeneration
C22_Witness ==
    /\ regen.pc = "returned"
    /\ regen.depth = 1
    /\ regen.options.maxRetries >= 1
    /\ regen.calls = 2 * (regen.options.maxRetries + 1)

----------------------------------------------------------------------------
(* The API route handler of project generation *)

MaxRequests == 3    \* requests the route serves

\* A request is not a POST, lacks required project information, or is complete
RequestKinds == {"notPost", "incomplete", "complete"}

\* The next request arrives.  Up to its first await the handler runs without
\* interruption: a request that is not a POST is answered 405; otherwise, if
\* (!initialized), projectGenerator.initialize() is started and awaited.
HandlerBegins(kind) ==
    /\ Len(api.at) < MaxRequests
    /\ api' = [api EXCEPT
                 !.kind = Append(@, kind),
                 !.at = Append(@, IF kind = "notPost" THEN "responded"
                                  ELSE IF ~api.initialized THEN "initializing"
                                  ELSE "validating"),
                 !.initStarted = IF kind # "notPost" /\ ~api.initialized
                                 THEN @ + 1 ELSE @]
    /\ UNCHANGED besidesRequests

\* The initialize() a request awaits settles (it resolves to true or false, it
\* never rejects): initialized = true
InitializeSettles(r) ==
    /\ r \in DOMAIN api.at /\ api.at[r] = "initializing"
    /\ api' = [api EXCEPT !.initialized = TRUE, !.at[r] = "validating",
                          !.initCompleted = @ + 1]
    /\ UNCHANGED besidesRequests

\* The request body is validated: 400, or generateProject is called
HandlerValidates(r) ==
    /\ r \in DOMAIN api.at /\ api.at[r] = "validating"
    /\ api' = [api EXCEPT !.at[r] = IF api.kind[r] = "incomplete" THEN "responded"
                                    ELSE "generating"]
    /\ UNCHANGED besidesRequests

\* generateProject settles and the response is sent (200 or 500)
HandlerResponds(r) ==
    /\ r \in DOMAIN api.at /\ api.at[r] = "generating"
    /\ api' = [api EXCEPT !.at[r] = "responded"]
    /\ UNCHANGED besidesRequests

NextRequests ==
    \/ \E k \in RequestKinds : HandlerBegins(k)
    \/ \E r \in 1..MaxRequests : InitializeSettles(r)
    \/ \E r \in 1..MaxRequests : HandlerValidates(r)
    \/ \E r \in 1..MaxRequests : HandlerResponds(r)

SpecRequests == InitDefault /\ [][NextRequests]_vars

\* C23: projectGenerator.initialize() is started at most once, and no request
\* is in generateProject while a started initialize() has not completed.
C23_InitializeStartedOnce ==
    /\ api.initStarted <= 1
    /\ (\E r \in DOMAIN api.at : api.at[r] = "generating")
           => api.initCompleted = api.initStarted

----------------------------------------------------------------------------
(* TemplateManager.addTemplate and validateTemplate *)

MaxAdders == 2      \* concurrent addTemplate calls for one template name

CategoryNames == {"contracts", "frontend", "projects"}

\* Template contents, as the atoms validateTemplate looks for
TemplateContents ==
    { <<"pragma solidity", "contract ">>,
      <<"pragma solidity">>,
      <<"{", "name", "structure", "}">>,
      <<"{", "name", "}">>,
      <<"import React">> }

\* content.includes(part)
Has(content, part) == \E i \in DOMAIN content : content[i] = part

\* JSON.parse(content) returns an object
ParsesAsJson(content) ==
    Len(content) >= 2 /\ content[1] = "{" /\ content[Len(content)] = "}"

\* result.errors of validateTemplate for a content that was read
ValidationErrors(category, content) ==
    IF category = "contracts"
    THEN (IF Has(content, "pragma solidity") THEN {} ELSE {"Missing pragma solidity statement"})
         \cup (IF Has(content, "contract ") THEN {} ELSE {"Missing contract definition"})
    ELSE IF category = "projects"
    THEN IF ParsesAsJson(content)
         THEN (IF Has(content, "name") THEN {} ELSE {"Missing project name"})
              \cup (IF Has(content, "structure") THEN {} ELSE {"Missing project structure"})
         ELSE {"Invalid JSON format"}
    ELSE {}

\* validateTemplate(category, name).isValid when the file read is: a set
\* holding the content, empty when getTemplateContent throws
ValidationVerdict(category, read) ==
    IF read = {} THEN "invalid"
    ELSE IF ValidationErrors(category, Given(read)) = {} THEN "valid" ELSE "invalid"

\* A call that goes on to write whatever the validation said
WritesRegardless(verdict) == "writing"

\* if (!validation.isValid) return { success: false, ... }
AfterValidation(verdict) == IF verdict = "valid" THEN "writing" ELSE "returned"

NewCall(content, validate) ==
    [pc |-> "writing", content |-> content, validate |-> validate, verdict |-> "none",
     success |-> "pending", faulted |-> FALSE, wrote |-> FALSE]

Failed(call, fault) ==
    [call EXCEPT !.pc = "returned", !.success = "false", !.faulted = @ \/ fault]

\* addTemplate(category, name, content, validate) is called: with validate,
\* fs.writeFile(tempPath, content)
AddTemplateBegins(limit, content, validate, fsOk) ==
    /\ Len(templateDir.calls) < limit
    /\ LET call == NewCall(content, validate)
       IN IF ~validate
          THEN templateDir' = [templateDir EXCEPT !.calls = Append(@, call)]
          ELSE IF fsOk
          THEN templateDir' = [templateDir EXCEPT
                                  !.temp = {content},
                                  !.calls = Append(@, [call EXCEPT !.pc = "validating"])]
          ELSE templateDir' = [templateDir EXCEPT !.calls = Append(@, Failed(call, TRUE))]
    /\ UNCHANGED besidesTemplates

\* validateTemplate(category, `.__temp_${name}`): the temporary file is read
\* and checked; a failed read is a validation error
ValidateReads(i, fsOk) ==
    /\ i \in DOMAIN templateDir.calls /\ templateDir.calls[i].pc = "validating"
    /\ LET read == IF fsOk THEN templateDir.temp ELSE {}
       IN templateDir' = [templateDir EXCEPT
              !.calls[i].verdict = ValidationVerdict(templateDir.category, read),
              !.calls[i].faulted = @ \/ ~fsOk,
              !.calls[i].pc = "unlinking"]
    /\ UNCHANGED besidesTemplates

\* fs.unlink(tempPath) after the validation; it rejects when the file is gone
Unlinks(i, fsOk) ==
    /\ i \in DOMAIN templateDir.calls /\ templateDir.calls[i].pc = "unlinking"
    /\ LET call == templateDir.calls[i]
       IN IF fsOk /\ templateDir.temp # {}
          THEN templateDir' = [templateDir EXCEPT
                   !.temp = {},
                   !.calls[i] = IF AfterValidation(call.verdict) = "writing"
                                THEN [call EXCEPT !.pc = "writing"]
                                ELSE Failed(call, FALSE)]
          ELSE templateDir' = [templateDir EXCEPT
                   !.calls[i].pc = "cleanup",
                   !.calls[i].faulted = @ \/ ~fsOk]
    /\ UNCHANGED besidesTemplates

\* catch (validationError): fs.unlink(tempPath) again, its error ignored, and
\* the rethrown error becomes { success: false }
CleansUp(i, fsOk) ==
    /\ i \in DOMAIN templateDir.calls /\ templateDir.calls[i].pc = "cleanup"
    /\ templateDir' = [templateDir EXCEPT
           !.temp = IF fsOk THEN {} ELSE @,
           !.calls[i] = Failed(@, ~fsOk)]
    /\ UNCHANGED besidesTemplates

\* fs.writeFile(templatePath, content) and the result
WritesTemplate(i, fsOk) ==
    /\ i \in DOMAIN templateDir.calls /\ templateDir.calls[i].pc = "writing"
    /\ LET call == templateDir.calls[i]
       IN IF fsOk
          THEN templateDir' = [templateDir EXCEPT
                   !.template = {call.content},
                   !.calls[i] = [call EXCEPT !.pc = "returned", !.success = "true",
                                             !.wrote = TRUE]]
          ELSE templateDir' = [templateDir EXCEPT !.calls[i] = Failed(call, TRUE)]
    /\ UNCHANGED besidesTemplates

InitAddTemplate ==
    /\ ServiceInit
    /\ config.maxRetries = DefaultMaxRetries /\ config.retryDelay = DefaultRetryDelay
    /\ NoMaterialization /\ NoBridgeCall /\ IdleBesidesTemplates
    /\ \E c \in CategoryNames : \E t \in {{}} \cup {{x} : x \in TemplateContents} :
           templateDir = [category |-> c, temp |-> {}, template |-> t, previous |-> t,
                          calls |-> <<>>]

AddTemplateSteps ==
    \/ \E i \in 1..MaxAdders : \E fsOk \in BOOLEAN : ValidateReads(i, fsOk)
    \/ \E i \in 1..MaxAdders : \E fsOk \in BOOLEAN : Unlinks(i, fsOk)
    \/ \E i \in 1..MaxAdders : \E fsOk \in BOOLEAN : CleansUp(i, fsOk)
    \/ \E i \in 1..MaxAdders : \E fsOk \in BOOLEAN : WritesTemplate(i, fsOk)

\* One addTemplate call
NextAddTemplate ==
    \/ \E c \in TemplateContents : \E v \in BOOLEAN : \E fsOk \in BOOLEAN :
           AddTemplateBegins(1, c, v, fsOk)
    \/ AddTemplateSteps

SpecAddTemplate == InitAddTemplate /\ [][NextAddTemplate]_vars

\* Concurrent validating addTemplate calls for the same category and name
NextAddTemplates ==
    \/ \E c \in TemplateContents : \E fsOk \in BOOLEAN :
           AddTemplateBegins(MaxAdders, c, TRUE, fsOk)
    \/ AddTemplateSteps

SpecAddTemplates == InitAddTemplate /\ [][NextAddTemplates]_vars

\* The validating calls that have returned
ReturnedValidating ==
    {i \in DOMAIN templateDir.calls :
        templateDir.calls[i].pc = "returned" /\ templateDir.calls[i].validate}

\* C24: a validating addTemplate call that has returned wrote the template
\* file if and only if its validation reported no errors; when it reported
\* errors the call returned success = false and the template is as it was;
\* and no temporary file remains.
C24_WritesIffValid ==
    \A i \in ReturnedValidating :
        LET call == templateDir.calls[i]
        IN /\ call.wrote <=> call.verdict = "valid"
           /\ call.verdict = "invalid" =>
                  call.success = "false" /\ templateDir.template = templateDir.previous
           /\ templateDir.temp = {}

\* C24 amended: the call writes the template file only if its validation
\* reported no errors, and does write it then unless an fs operation of the
\* call failed; a call that did not write returned success = false and left
\* the template as it was; the temporary file remains only if an fs operation
\* of the call failed.
C24_WritesOnlyIfValid ==
    \A i \in ReturnedValidating :
        LET call == templateDir.calls[i]
        IN /\ call.wrote => call.verdict = "valid"
           /\ (call.verdict = "valid" /\ ~call.faulted) => call.wrote
           /\ call.wrote => call.success = "true" /\ templateDir.template = {call.content}
           /\ ~call.wrote =>
                  call.success = "false" /\ templateDir.template = templateDir.previous
           /\ ~call.faulted =>
                  (call.verdict = "valid"
                       <=> ValidationErrors(templateDir.category, call.content) = {})
           /\ templateDir.temp # {} => call.faulted

\* A call whose content failed the validation has returned over an existing
\* template
C24_Witness ==
    \E i \in ReturnedValidating :
        /\ templateDir.calls[i].verdict = "invalid"
        /\ ~templateDir.calls[i].faulted
        /\ templateDir.previous # {}
        /\ templateDir.template = templateDir.previous
        /\ templateDir.temp = {}

\* C28: when no fs operation failed, the verdict and the outcome of every
\* concurrent validating call are those of the validation of its own content.
C28_VerdictIsOfOwnContent ==
    (\A j \in DOMAIN templateDir.calls : ~templateDir.calls[j].faulted) =>
        \A i \in ReturnedValidating :
            LET call == templateDir.calls[i]
                valid == ValidationErrors(templateDir.category, call.content) = {}
            IN /\ call.verdict = "valid" <=> valid
               /\ call.success = "true" <=> valid

-----------------------------------------------------------------------------
(* Web3ProjectManager.initialize: it awaits the template manager's          *)
(* initialize and then the project generator's, which itself awaits the     *)
(* template manager's initialize once more.  Each step below is one         *)
(* file-system operation of these routines and the synchronous code up to   *)
(* the next await.                                                           *)

\* The routines that run, in the order in which they run
Routines == <<"templateManager", "nested", "projectGenerator">>

\* TemplateManager.initialize: the category directories are ensured in the
\* order of this.categories, then the templates are listed, created by
\* default when there are none, and validated
TemplateManagerSteps(routine) ==
    << [in |-> routine, dir |-> "contracts"],
       [in |-> routine, dir |-> "frontend"],
       [in |-> routine, dir |-> "projects"],
       [in |-> routine, dir |-> "templates"] >>

\* ProjectGenerator.initialize after its call of templateManager.initialize
ProjectGeneratorSteps ==
    << [in |-> "projectGenerator", dir |-> "output"],
       [in |-> "projectGenerator", dir |-> "integrations"] >>

InitializeSteps ==
    TemplateManagerSteps("templateManager") \o TemplateManagerSteps("nested")
        \o ProjectGeneratorSteps

DirectoryNames == {"contracts", "frontend", "projects", "output", "integrations"}

\* The last step of a routine
LastStepOf(routine) ==
    CHOOSE k \in DOMAIN InitializeSteps :
        /\ InitializeSteps[k].in = routine
        /\ \A j \in DOMAIN InitializeSteps : InitializeSteps[j].in = routine => j <= k

\* What Web3ProjectManager.initialize does with the values its two awaits
\* resolve to: nothing, it sets the flag and returns true
ManagerReturns(m) ==
    [m EXCEPT !.pc = "returned", !.initialized = TRUE, !.returned = "true"]

\* A routine returns its value at step k; the caller continues after the
\* routine's last step.  The value of the nested call is dropped by
\* ProjectGenerator.initialize, which goes on with its own directories.
RoutineReturns(m, routine, value) ==
    LET after == LastStepOf(routine) + 1
        settled == [m EXCEPT ![routine] = value, !.step = after]
    IN  IF after > Len(InitializeSteps) THEN ManagerReturns(settled) ELSE settled

\* The step at hand succeeded
StepSucceeds(m) ==
    LET routine == InitializeSteps[m.step].in
    IN  IF m.step = LastStepOf(routine) /\ routine # "nested"
        THEN RoutineReturns(m, routine, "true")
        ELSE IF m.step = LastStepOf(routine)
        THEN [m EXCEPT !.nested = "true", !.step = @ + 1]
        ELSE [m EXCEPT !.step = @ + 1]

\* The step at hand threw: the routine's catch logs and returns false.  A
\* failure of the nested template manager leaves the project generator's
\* own result open.
StepFails(m) ==
    LET routine == InitializeSteps[m.step].in
    IN  IF routine = "nested"
        THEN [m EXCEPT !.nested = "false", !.step = LastStepOf("nested") + 1]
        ELSE RoutineReturns(m, routine, "false")

ManagerInitializeBegins ==
    /\ manager.pc = "idle"
    /\ manager' = [manager EXCEPT !.pc = "running", !.step = 1]
    /\ UNCHANGED besidesInitialization

\* fs.access(dir), and fs.mkdir(dir, {recursive: true}) when it rejects
EnsuresDirectory(fsOk) ==
    /\ manager.pc = "running"
    /\ InitializeSteps[manager.step].dir \in DirectoryNames
    /\ LET dir == InitializeSteps[manager.step].dir
       IN  manager' =
               IF dir \in manager.dirs THEN StepSucceeds(manager)
               ELSE IF fsOk
               THEN StepSucceeds([manager EXCEPT !.dirs = @ \cup {dir}])
               ELSE StepFails(manager)
    /\ UNCHANGED besidesInitialization

\* getTemplates, createDefaultTemplates and validateExistingTemplates
ChecksTemplates(fsOk) ==
    /\ manager.pc = "running"
    /\ InitializeSteps[manager.step].dir = "templates"
    /\ manager' = IF fsOk THEN StepSucceeds(manager) ELSE StepFails(manager)
    /\ UNCHANGED besidesInitialization

InitInitialize ==
    /\ ServiceInit
    /\ config.maxRetries = DefaultMaxRetries /\ config.retryDelay = DefaultRetryDelay
    /\ NoMaterialization /\ NoBridgeCall /\ IdleBesidesInitialization
    /\ \E present \in SUBSET DirectoryNames :
           manager = [pc |-> "idle", step |-> 0, dirs |-> present,
                      templateManager |-> "pending", nested |-> "pending",
                      projectGenerator |-> "pending", initialized |-> FALSE,
                      returned |-> "none"]

NextInitialize ==
    \/ ManagerInitializeBegins
    \/ \E fsOk \in BOOLEAN : EnsuresDirectory(fsOk)
    \/ \E fsOk \in BOOLEAN : ChecksTemplates(fsOk)

SpecInitialize == InitInitialize /\ [][NextInitialize]_vars

\* C25: Web3ProjectManager.initialize returns true and sets initialized only
\* if the template manager's and the project generator's initialize both
\* succeeded; if either of them failed it returns false and initialized
\* stays false.
C25_TrueOnlyIfBothSucceeded ==
    manager.pc = "returned" =>
        IF manager.templateManager = "true" /\ manager.projectGenerator = "true"
        THEN manager.returned = "true" /\ manager.initialized
        ELSE manager.returned = "false" /\ ~manager.initialized

-----------------------------------------------------------------------------
(* The framework detection of ClaudeService.  The constructor sets both     *)
(* frameworks to unavailable and calls detectFrameworks without awaiting    *)
(* it; detectFrameworks checks the enabled frameworks one after the other,  *)
(* each check being an awaited fs.access.  generateContract,                *)
(* generateFrontend and generateProjectStructure build their prompt         *)
(* synchronously when they are called.                                       *)

MaxPrompts == 2

FrameworkNames == <<"langchain", "solana-web3">>

PromptMethods == {"generateContract", "generateFrontend", "generateProjectStructure"}

PromptBlockchains == {"ethereum", "solana"}

\* The framework that serves a blockchain
MatchingFramework(blockchain) ==
    IF blockchain = "ethereum" THEN "langchain" ELSE "solana-web3"

\* The check detectFrameworks runs after the k-th, skipping the frameworks
\* the configuration disables
RECURSIVE NextDetection(_, _)
NextDetection(enabled, k) ==
    IF k >= Len(FrameworkNames) THEN "done"
    ELSE IF FrameworkNames[k + 1] \in enabled THEN FrameworkNames[k + 1]
    ELSE NextDetection(enabled, k + 1)

IndexOfFramework(name) == CHOOSE k \in DOMAIN FrameworkNames : FrameworkNames[k] = name

GetBlockchainFrameworkSupport(available, blockchain) ==
    IF blockchain = "ethereum"
    THEN IF "langchain" \in available THEN <<"langchain">> ELSE <<>>
    ELSE IF blockchain = "solana"
    THEN IF "solana-web3" \in available THEN <<"solana-web3">> ELSE <<>>
    ELSE <<>>

\* The prompt as the sequence of its parts
EnhancePromptWithFrameworks(prompt, available, blockchain) ==
    LET support == GetBlockchainFrameworkSupport(available, blockchain)
    IN  IF support = <<>> THEN prompt
        ELSE prompt \o << <<"Additional Framework Integration", support>> >>
                 \o (IF blockchain = "solana" /\ support = <<"solana-web3">>
                     THEN << <<"Use @solana/web3.js">> >> ELSE <<>>)
                 \o (IF support = <<"langchain">>
                     THEN << <<"Use LangChain">> >> ELSE <<>>)

\* The prompt a generation method builds up to its call of
\* enhancePromptWithFrameworks
BasePrompt(promptMethod, blockchain) == << <<promptMethod, blockchain>> >>

\* isFrameworkAvailable settles and detectFrameworks goes on to its next check
FrameworkDetected ==
    /\ frameworks.detect # "done"
    /\ frameworks' =
           [frameworks EXCEPT
               !.available = IF frameworks.detect \in frameworks.onDisk
                             THEN @ \cup {frameworks.detect}
                             ELSE @ \ {frameworks.detect},
               !.detect = NextDetection(frameworks.enabled,
                                        IndexOfFramework(frameworks.detect))]
    /\ UNCHANGED besidesDetection

BuildsPrompt(promptMethod, blockchain) ==
    /\ Len(frameworks.prompts) < MaxPrompts
    /\ frameworks' =
           [frameworks EXCEPT !.prompts =
               Append(@, [blockchain |-> blockchain,
                          detect |-> frameworks.detect,
                          prompt |-> EnhancePromptWithFrameworks(
                                         BasePrompt(promptMethod, blockchain),
                                         frameworks.available, blockchain)])]
    /\ UNCHANGED besidesDetection

\* The state the constructor leaves: nothing available, detectFrameworks at
\* its first await
InitDetection ==
    /\ ServiceInit
    /\ config.maxRetries = DefaultMaxRetries /\ config.retryDelay = DefaultRetryDelay
    /\ NoMaterialization /\ NoBridgeCall /\ IdleBesidesDetection
    /\ \E present \in SUBSET {"langchain", "solana-web3"} :
       \E enabled \in SUBSET {"langchain", "solana-web3"} :
           frameworks = [onDisk |-> present, enabled |-> enabled, available |-> {},
                         detect |-> NextDetection(enabled, 0), prompts |-> <<>>]

NextDetectionStep ==
    \/ FrameworkDetected
    \/ \E promptMethod \in PromptMethods : \E blockchain \in PromptBlockchains :
           BuildsPrompt(promptMethod, blockchain)

SpecDetection == InitDetection /\ [][NextDetectionStep]_vars

HasNotice(prompt) ==
    \E k \in DOMAIN prompt : prompt[k][1] = "Additional Framework Integration"

\* C26: a prompt built by generateContract, generateFrontend or
\* generateProjectStructure carries the framework-integration notice if and
\* only if the matching framework is on disk and enabled, at whatever moment
\* after construction the prompt is built, including before the detection
\* started by the constructor has finished.
C26_NoticeIffOnDiskAndEnabled ==
    \A k \in DOMAIN frameworks.prompts :
        HasNotice(frameworks.prompts[k].prompt)
            <=> MatchingFramework(frameworks.prompts[k].blockchain)
                    \in frameworks.onDisk \cap frameworks.enabled

-----------------------------------------------------------------------------
(* ClaudeEnhancer.  Its constructor keeps the service's generateContract as *)
(* originalGenerateContract and puts enhancedGenerateContract in its place. *)
(* A call runs without an await from the outermost wrapper down to the      *)
(* sendPrompt of ClaudeService.generateContract, so it is one step.  A      *)
(* prompt is the sequence of its parts, each part a tuple headed by its     *)
(* title.                                                                    *)

MaxWrappers == 2

MaxContractCalls == 2

ContractBlockchains == {"ethereum", "solana"}

ContractTypeNames == {"token", "nft", "dapp"}

\* BlockchainEnhancer.enhanceContractPrompt: the design patterns and error
\* handling patterns are non-empty for both blockchains
EnhanceContractPrompt(prompt, blockchain, contractType) ==
    prompt \o << <<"Security Design Patterns", blockchain>>,
                 <<"Optimization Design Patterns", blockchain>>,
                 <<"Error Handling Patterns", blockchain>> >>
           \o (IF contractType \in {"token", "nft"}
               THEN << <<"Ensure", blockchain, contractType>> >> ELSE <<>>)

\* The prompt enhancedGenerateContract builds before enhancing it
WrapperPrompt(blockchain, contractType) ==
    << <<"contractGeneration", blockchain>>, <<"Contract Type", contractType>>,
       <<"Blockchain", blockchain>>, <<"Project Description">> >>

\* The prompt ClaudeService.generateContract builds from its arguments
ContractPrompt(blockchain, contractType) ==
    << <<"contractGeneration", blockchain>>, <<"Contract Type", contractType>>,
       <<"Blockchain", blockchain>>, <<"Project Description">>,
       <<"Technical Details", blockchain, contractType>>,
       <<"Network", blockchain>>,
       <<"Please generate", blockchain>> >>

\* enhancedGenerateContract: options.enhancedPrompt is set, then the kept
\* original is called with the same arguments
EnhancedGenerateContract(call) ==
    [call EXCEPT !.enhancedPrompt =
        {EnhanceContractPrompt(WrapperPrompt(call.blockchain, call.contractType),
                               call.blockchain, call.contractType)}]

\* ClaudeService.generateContract: options.enhancedPrompt is not read
GenerateContract(call) ==
    [call EXCEPT !.originalCalls = @ + 1,
                 !.sent = EnhancePromptWithFrameworks(
                              ContractPrompt(call.blockchain, call.contractType),
                              frameworks.available, call.blockchain)]

\* The call goes through the wrappers from the last one put on to the first
RECURSIVE ThroughWrappers(_, _)
ThroughWrappers(wrappers, call) ==
    IF wrappers = 0 THEN GenerateContract(call)
    ELSE ThroughWrappers(wrappers - 1, EnhancedGenerateContract(call))

\* new ClaudeEnhancer(claudeService)
Wraps ==
    /\ enhancer.wrappers < MaxWrappers
    /\ enhancer' = [enhancer EXCEPT !.wrappers = @ + 1]
    /\ UNCHANGED besidesEnhancement

\* claudeService.generateContract(description, contractType, {blockchain})
GenerateContractCalled(blockchain, contractType) ==
    /\ Len(enhancer.calls) < MaxContractCalls
    /\ enhancer' = [enhancer EXCEPT !.calls =
           Append(@, ThroughWrappers(enhancer.wrappers,
                         [blockchain |-> blockchain, contractType |-> contractType,
                          wrappers |-> enhancer.wrappers, enhancedPrompt |-> {},
                          originalCalls |-> 0, sent |-> <<>>]))]
    /\ UNCHANGED besidesEnhancement

NextEnhancement ==
    \/ Wraps
    \/ \E blockchain \in ContractBlockchains : \E contractType \in ContractTypeNames :
           GenerateContractCalled(blockchain, contractType)

SpecEnhancement == InitDefault /\ [][NextEnhancement]_vars

HasSection(prompt, title) == \E k \in DOMAIN prompt : prompt[k][1] = title

\* C27: after a ClaudeEnhancer has wrapped the service, each call of
\* claudeService.generateContract invokes the original generateContract exactly
\* once, and the prompt sent to the remote call is the enhanced prompt: it holds
\* the design-pattern and error-handling sections of enhanceContractPrompt.
C27_SentPromptIsEnhanced ==
    \A k \in DOMAIN enhancer.calls :
        enhancer.calls[k].wrappers >= 1 =>
            /\ enhancer.calls[k].originalCalls = 1
            /\ HasSection(enhancer.calls[k].sent, "Security Design Patterns")
            /\ HasSection(enhancer.calls[k].sent, "Error Handling Patterns")

-----------------------------------------------------------------------------
(* Materialization: the order of the bindings *)

\* C29: the substitution of processStructure is the simultaneous substitution
\* of all bindings; text inserted as the value of one variable is not
\* rescanned for the placeholders of another, so the content written does not
\* depend on the order in which the bindings are iterated.
C29_ContentIndependentOfBindingOrder ==
    \A i \in WrittenStrings :
        \A other \in Reorderings(variables) :
            written[i].content
                = FileContent(written[i].value.text, other, templates).content

-----------------------------------------------------------------------------
(* ProjectGenerator.generateProject: the project directory is made, the     *)
(* structure is obtained from generateProjectStructure, and                 *)
(* generateProjectFiles materializes it with processStructure and then      *)
(* writes the contract file and WalletConnector.jsx.  Trees have the form   *)
(* processStructure takes; the files of the project directory are kept as   *)
(* the set of their paths.                                                   *)

Entry(key, value) == [key |-> key, value |-> value]

ProjectTypes == {"token", "nft", "dapp"}

ProjectBlockchains == {"ethereum", "solana"}

\* The structure generateProjectStructure returns from its catch
FallbackStructure ==
    << Entry("contracts", ObjectValue(<<>>)),
       Entry("frontend", ObjectValue(
           << Entry("src", ObjectValue(
                  << Entry("components", ObjectValue(<<>>)),
                     Entry("pages", ObjectValue(<<>>)),
                     Entry("styles", ObjectValue(<<>>)) >>)),
              Entry("public", ObjectValue(<<>>)) >>)),
       Entry("scripts", ObjectValue(<<>>)),
       Entry("README.md", StringValue(<<>>)) >>

\* The structure of basic-web3-project.json, the default project template
BasicProjectStructure ==
    << Entry("contracts", ObjectValue(
           << Entry("Token.sol", StringValue(Placeholder(<<"TokenContract">>))) >>)),
       Entry("frontend", ObjectValue(
           << Entry("src", ObjectValue(
                  << Entry("components", ObjectValue(
                         << Entry("TokenInfo.jsx", StringValue(<<"// Token info">>)) >>)),
                     Entry("pages", ObjectValue(
                         << Entry("index.js", StringValue(<<"// Main page">>)) >>)) >>)),
              Entry("public", ObjectValue(<< Entry("favicon.ico", NullValue) >>)) >>)),
       Entry("README.md", StringValue(Placeholder(<<"ProjectName">>))) >>

\* A project template added with addTemplate: validateTemplate asks of it a
\* name and a structure, whatever the structure holds
AddedProjectStructure == << Entry("README.md", NullValue) >>

\* Structures parseProjectStructure yields: a directory exists in the result
\* only on the path of a file line
ParsedStructures ==
    { <<>>,
      << Entry("contracts", ObjectValue(<< Entry("Token.sol", NullValue) >>)) >>,
      << Entry("contracts", ObjectValue(<< Entry("Token.sol", NullValue) >>)),
         Entry("frontend", ObjectValue(
             << Entry("src", ObjectValue(
                    << Entry("components", ObjectValue(
                           << Entry("App.jsx", NullValue) >>)) >>)) >>)) >> }

\* ClaudeService.generateProjectStructure when the parsing throws
RawResponseStructure == << Entry("rawResponse", StringValue(<<"response">>)) >>

StructureSources == {"template", "ai", "rawResponse", "fallback"}

\* What generateProjectStructure can return, by where it comes from
StructuresOf(source) ==
    CASE source = "template" -> {BasicProjectStructure, AddedProjectStructure}
      [] source = "ai" -> ParsedStructures
      [] source = "rawResponse" -> {RawResponseStructure}
      [] OTHER -> {FallbackStructure}

\* contractFileName of generateProjectFiles; no contract for other types
ContractFileName(type, blockchain) ==
    IF type = "token" THEN (IF blockchain = "solana" THEN "token.rs" ELSE "Token.sol")
    ELSE IF type = "nft" THEN (IF blockchain = "solana" THEN "nft.rs" ELSE "NFT.sol")
    ELSE "none"

ContractsDir == <<"contracts">>

ComponentsDir == <<"frontend", "src", "components">>

\* The project directory after processStructure has handled the first n
\* entries of its traversal
AfterEntries(p, n) ==
    LET order == Traversal(p.structure, <<>>)
        done == {order[k] : k \in 1..n}
    IN  [p EXCEPT !.dirs = @ \cup {e.path : e \in {d \in done : d.value.kind = "object"}},
                  !.files = @ \cup {e.path : e \in {d \in done : d.value.kind # "object"}}]

\* fs.writeFile(path) on the project directory: the parent has to exist
ProjectWrite(p, path, fsOk, next) ==
    IF fsOk /\ Parent(path) \in p.dirs
    THEN [p EXCEPT !.files = @ \cup {path}, !.pc = next]
    ELSE [p EXCEPT !.pc = "failed"]

\* fs.mkdir(projectDir, {recursive: true}), the repositories and
\* configureBlockchainSpecificDependencies, which writes into projectDir itself
GenerateProjectBegins(type, blockchain, fsOk) ==
    /\ project.pc = "idle"
    /\ project' =
           IF fsOk
           THEN [project EXCEPT !.pc = "structure", !.type = type,
                                !.blockchain = blockchain, !.dirs = {<<>>},
                                !.files = {<<"package.json">>}]
           ELSE [project EXCEPT !.pc = "failed", !.type = type,
                                !.blockchain = blockchain]
    /\ UNCHANGED besidesGeneration

\* await this.generateProjectStructure(description, type, blockchain)
StructureGenerated(source) ==
    /\ project.pc = "structure"
    /\ \E tree \in StructuresOf(source) :
           project' = [project EXCEPT !.pc = "process", !.source = source,
                                      !.structure = tree]
    /\ UNCHANGED besidesGeneration

\* await this.processStructure(projectDir, structure, variables): all of it,
\* or the entries before the one whose fs call fails
ProcessesStructure(fsOk) ==
    /\ project.pc = "process"
    /\ LET count == Len(Traversal(project.structure, <<>>))
       IN  IF fsOk
           THEN project' =
                    [AfterEntries(project, count) EXCEPT !.pc =
                        IF ContractFileName(project.type, project.blockchain) # "none"
                        THEN "contract" ELSE "component"]
           ELSE \E n \in 0..(count - 1) :
                    project' = [AfterEntries(project, n) EXCEPT !.pc = "failed"]
    /\ UNCHANGED besidesGeneration

\* The contract is generated and written to contracts/contractFileName
WritesContract(fsOk) ==
    /\ project.pc = "contract"
    /\ project' = ProjectWrite(project,
                      ContractsDir \o <<ContractFileName(project.type, project.blockchain)>>,
                      fsOk, "component")
    /\ UNCHANGED besidesGeneration

\* The component is generated and written to
\* frontend/src/components/WalletConnector.jsx
WritesWalletConnector(fsOk) ==
    /\ project.pc = "component"
    /\ project' = ProjectWrite(project, ComponentsDir \o <<"WalletConnector.jsx">>,
                               fsOk, "written")
    /\ UNCHANGED besidesGeneration

NextGeneration ==
    \/ \E type \in ProjectTypes : \E blockchain \in ProjectBlockchains :
       \E fsOk \in BOOLEAN : GenerateProjectBegins(type, blockchain, fsOk)
    \/ \E source \in StructureSources : StructureGenerated(source)
    \/ \E fsOk \in BOOLEAN : ProcessesStructure(fsOk)
    \/ \E fsOk \in BOOLEAN : WritesContract(fsOk)
    \/ \E fsOk \in BOOLEAN : WritesWalletConnector(fsOk)

SpecGeneration == InitDefault /\ [][NextGeneration]_vars

\* C30: for every structure generateProjectStructure can return (a matching
\* template, an AI-generated structure including the rawResponse form, or the
\* fallback structure) the directories contracts and frontend/src/components
\* exist under the project directory before generateProjectFiles writes the
\* contract file and WalletConnector.jsx into them.
C30_DirectoriesExistBeforeWrites ==
    /\ project.pc = "contract" => ContractsDir \in project.dirs
    /\ project.pc = "component" => ComponentsDir \in project.dirs

====
